---- MODULE Spec2Model ----
(***************************************************************************)
(* Ping-Masters collateralized lending ledger.                             *)
(*                                                                         *)
(*   LendingEngine  src/contracts/hardhat.config.js  (lines 81-481)        *)
(*   DebtToken      src/contracts/src/DebtToken.sol  (pmUSD and pmINR)      *)
(*   PriceConsumer  src/unnamed/part_001                                   *)
(*   LiquidationArchive  src/unnamed/part_000                              *)
(*                                                                         *)
(* Every external call of the contracts is one action.  A call that        *)
(* reverts leaves the contracts' storage as it was (the EVM rolls the      *)
(* transaction back): it is a stuttering step, and the custom error it     *)
(* reverts with is given by the ...Err operator of the call.  `last` is a  *)
(* history variable holding the latest call that succeeded.                *)
(*                                                                         *)
(* Specifications.  Spec runs the engine, its ledgers and the oracle call  *)
(* by call; SpecTx runs the engine's calls statement by statement, with    *)
(* the rollback of a revert; SpecLedger runs a DebtToken from its          *)
(* construction; SpecArchive the LiquidationArchive; SpecOracle the        *)
(* PriceConsumer with the clock and its ownership; SpecViews the engine    *)
(* with its view functions; SpecReentry the engine with calls re-entered   *)
(* from the payouts of withdraw and liquidate; SpecKeeper the engine with  *)
(* liquidators that keep calling (weak fairness of liquidate).             *)
(*                                                                         *)
(* Numbers.  The contracts compute in uint256 with 18-decimal amounts and  *)
(* 8-decimal prices.  The model keeps every formula of the source as it   *)
(* is written (the same products, the same floor divisions, in the same   *)
(* order) and scales the two powers of ten: PRICE_DECIMALS is             *)
(* 10^PriceDigits and PRECISION is 10^PrecisionDigits, with the number of *)
(* digits a bound of the model.  All amounts of the model stay far below  *)
(* the word size, so the checked arithmetic of Solidity 0.8 never         *)
(* reverts on them.                                                        *)
(***************************************************************************)
EXTENDS Integers, Sequences, FiniteSets, TLC

\* ------------------------------------------------------------------ bounds

\* Decimal digits of the oracle price (8 in the source).
PriceDigits == 2
\* Decimal digits of the health factor scale (18 in the source).
PrecisionDigits == 2
\* The lot in which the model's callers move collateral.
Unit == 40

\* --------------------------------------------------------------- constants

PRECISION == 10 ^ PrecisionDigits
PRICE_DECIMALS == 10 ^ PriceDigits
LIQUIDATION_THRESHOLD == 80
LIQUIDATION_BONUS == 5
MAX_LTV == 75
\* type(uint256).max, the health factor of a position without debt: above
\* every health factor the model can compute.
UINT_MAX == 2 ^ 30

\* ---------------------------------------------------------------- identities

Users == {"alice", "bob"}
Deployer == "deployer"
Engine == "engine"
ZeroAddr == "0x0"
\* The callers of the privileged operations: the deployer and an outsider.
Admins == {Deployer, "bob"}

USD == "USD"
INR == "INR"
Currencies == {USD, INR}

\* Oracle rates the price updater posts: 1.0 unit of fiat per unit of
\* collateral, a 10% drop, and a crash to 0.03.
Prices == {(3 * PRICE_DECIMALS) \div 100, (9 * PRICE_DECIMALS) \div 10, PRICE_DECIMALS}
BorrowLot == (MAX_LTV * Unit) \div 100

VARIABLES
    collateralAmount,   \* LendingEngine.collateralAmount
    borrowedAmount,     \* LendingEngine.borrowedAmount
    userCurrency,       \* LendingEngine.userCurrency
    hasCurrency,        \* LendingEngine.hasCurrency
    borrowers,          \* LendingEngine.borrowers
    isBorrower,         \* LendingEngine._isBorrower
    owner,              \* LendingEngine.owner
    paused,             \* LendingEngine.paused
    engineBalance,      \* address(LendingEngine).balance
    totalSupply,        \* DebtToken.totalSupply, per currency
    balanceOf,          \* DebtToken.balanceOf, per currency
    minter,             \* DebtToken.minter, per currency
    prices,             \* PriceConsumer._prices
    wallet,             \* native balance of each user
    last,               \* the latest call that succeeded
    pc,                 \* position of the engine call in execution, "idle" if none
    frame,              \* the call in execution: its arguments and locals
    snapshot,           \* the engine's and ledgers' storage at the call's entry
    liquidations,       \* LiquidationArchive.liquidations
    totalDebtRepaidUSD, \* LiquidationArchive.totalDebtRepaidUSD
    totalDebtRepaidINR, \* LiquidationArchive.totalDebtRepaidINR
    totalCollateralSeized,  \* LiquidationArchive.totalCollateralSeized
    totalLiquidationEvents, \* LiquidationArchive.totalLiquidationEvents
    liquidationCount,   \* LiquidationArchive.liquidationCount
    archiveOwner,       \* LiquidationArchive.owner
    loggerBot,          \* LiquidationArchive.loggerBot
    oracleOwner,        \* PriceConsumer.owner
    lastUpdatedAt,      \* PriceConsumer.lastUpdatedAt
    now                 \* block.timestamp

positions == <<collateralAmount, borrowedAmount, userCurrency, hasCurrency>>
registry == <<borrowers, isBorrower>>
ledgers == <<totalSupply, balanceOf, minter>>
native == <<engineBalance, wallet>>
admin == <<owner, paused>>
\* The oracle's owner and timestamps, and the clock they are read from.
oracle == <<oracleOwner, lastUpdatedAt, now>>
state == <<positions, registry, ledgers, native, admin, prices, oracle>>
vars == <<state, last>>
\* The call in execution, for the specification that runs the engine's calls
\* one storage write at a time.
txvars == <<pc, frame, snapshot>>
\* The storage of the LiquidationArchive.
aggregates ==
    <<totalDebtRepaidUSD, totalDebtRepaidINR, totalCollateralSeized,
      totalLiquidationEvents, liquidationCount>>
roles == <<archiveOwner, loggerBot>>
archive == <<liquidations, aggregates, roles>>

\* ------------------------------------------------------------------ helpers

Min(a, b) == IF a < b THEN a ELSE b

RECURSIVE SumOver(_, _)
SumOver(f, S) ==
    IF S = {} THEN 0
    ELSE LET x == CHOOSE y \in S : TRUE IN f[x] + SumOver(f, S \ {x})

\* The record of the latest call that succeeded: its caller and arguments
\* ("-" where it has none) and, for liquidate, the arguments of the
\* Liquidated event it emitted (debt, seized, bonus, cur).
Call(op, caller, amount, cur, user) ==
    [op |-> op, caller |-> caller, amount |-> amount, cur |-> cur,
     user |-> user, debt |-> 0, seized |-> 0, bonus |-> 0]

\* A call that reverts: the EVM rolls the transaction back, no storage and no
\* balance changes.  The revert reason is the value of the call's ...Err
\* operator.
Revert == UNCHANGED vars

\* ------------------------------------------------------------ PriceConsumer

\* getLatestPrice(currency), the form without a staleness bound.
GetLatestPrice(cur) == prices[cur]

\* ---------------------------------------------------------------- DebtToken

\* Mutant: mint open to every caller.
MintErrAnyCaller(cur, sender, to) ==
    IF to = ZeroAddr THEN "ZeroAddress" ELSE "none"

\* mint(to, amount) called by sender: its revert reason, "none" if it passes.
MintErr(cur, sender, to) ==
    IF sender # minter[cur] THEN "Unauthorized"
    ELSE IF to = ZeroAddr THEN "ZeroAddress"
    ELSE "none"

MintBalances(cur, to, amount) ==
    [balanceOf EXCEPT ![cur][to] = @ + amount]

MintSupply(cur, amount) ==
    [totalSupply EXCEPT ![cur] = @ + amount]

\* burn(from, amount) called by sender.
BurnErr(cur, sender, from, amount) ==
    IF sender # minter[cur] THEN "Unauthorized"
    ELSE IF balanceOf[cur][from] < amount THEN "InsufficientBalance"
    ELSE "none"

\* Mutant: burn lowers the supply and forgets the holder's balance.
BurnBalancesKeepsBalance(cur, from, amount) == balanceOf

BurnBalances(cur, from, amount) ==
    [balanceOf EXCEPT ![cur][from] = @ - amount]

BurnSupply(cur, amount) ==
    [totalSupply EXCEPT ![cur] = @ - amount]

\* -------------------------------------------------- LendingEngine, internal

ToFiatValue(bnbWei, price) == (bnbWei * price) \div PRICE_DECIMALS

\* The body of _calculateHealthFactor on a position of the given collateral,
\* debt and currency.
HealthFactor(collateral, debt, cur) ==
    LET price == GetLatestPrice(cur)
        colFiat == ToFiatValue(collateral, price)
    IN  IF debt = 0 THEN UINT_MAX
        ELSE (colFiat * LIQUIDATION_THRESHOLD * PRECISION) \div (debt * 100)

CalculateHealthFactor(user) ==
    HealthFactor(collateralAmount[user], borrowedAmount[user], userCurrency[user])

\* Mutant: the borrow ceiling at 100% of the collateral value.
MaxBorrowFullValue(user, currency) ==
    ToFiatValue(collateralAmount[user], GetLatestPrice(currency))

MaxBorrow(user, currency) ==
    (ToFiatValue(collateralAmount[user], GetLatestPrice(currency)) * MAX_LTV) \div 100

\* Mutant: _trackBorrower that registers nobody.
TrackedBorrowersNobody(user) == borrowers

\* Mutant: _trackBorrower without the presence check.
TrackedBorrowersAgain(user) == Append(borrowers, user)

TrackedBorrowers(user) ==
    IF isBorrower[user] THEN borrowers ELSE Append(borrowers, user)

TrackedFlags(user) == [isBorrower EXCEPT ![user] = TRUE]

TrackBorrower(user) ==
    /\ borrowers' = TrackedBorrowers(user)
    /\ isBorrower' = TrackedFlags(user)

\* Mutant: _executeBorrow without the ceiling.
ExecuteBorrowErrNoLimit(user, amount, currency) ==
    MintErr(currency, Engine, user)

\* Mutant: _executeBorrow refusing a borrow that lands exactly on the ceiling.
ExecuteBorrowErrBelowCeiling(user, amount, currency) ==
    IF borrowedAmount[user] + amount >= MaxBorrow(user, currency)
    THEN "BorrowLimitExceeded"
    ELSE MintErr(currency, Engine, user)

\* _executeBorrow: its revert reason.
ExecuteBorrowErr(user, amount, currency) ==
    IF borrowedAmount[user] + amount > MaxBorrow(user, currency)
    THEN "BorrowLimitExceeded"
    ELSE MintErr(currency, Engine, user)

\* _executeBorrow: its effects.
ExecuteBorrow(user, amount, currency) ==
    /\ borrowedAmount' = [borrowedAmount EXCEPT ![user] = @ + amount]
    /\ TrackBorrower(user)
    /\ balanceOf' = MintBalances(currency, user, amount)
    /\ totalSupply' = MintSupply(currency, amount)

\* ------------------------------------------------ LendingEngine, user actions

DepositErr(value) ==
    IF paused THEN "ContractPaused"
    ELSE IF value = 0 THEN "ZeroAmount"
    ELSE "none"

\* depositCollateral() with msg.value = value.
DepositCollateral(a, value) ==
    /\ value <= wallet[a]
    /\ IF DepositErr(value) # "none" THEN Revert
       ELSE /\ collateralAmount' = [collateralAmount EXCEPT ![a] = @ + value]
            /\ TrackBorrower(a)
            /\ wallet' = [wallet EXCEPT ![a] = @ - value]
            /\ engineBalance' = engineBalance + value
            /\ last' = Call("depositCollateral", a, value, "-", "-")
            /\ UNCHANGED <<borrowedAmount, userCurrency, hasCurrency, ledgers, admin, prices>>

\* receive(): a plain value transfer to the engine.
Receive(a, value) ==
    /\ value <= wallet[a]
    /\ IF value > 0
       THEN /\ collateralAmount' = [collateralAmount EXCEPT ![a] = @ + value]
            /\ TrackBorrower(a)
            /\ wallet' = [wallet EXCEPT ![a] = @ - value]
            /\ engineBalance' = engineBalance + value
            /\ last' = Call("receive", a, value, "-", "-")
            /\ UNCHANGED <<borrowedAmount, userCurrency, hasCurrency, ledgers, admin, prices>>
       ELSE UNCHANGED vars

\* Mutant: withdraw without the health check.
WithdrawErrNoHealthCheck(a, amount, accepts) ==
    IF paused THEN "ContractPaused"
    ELSE IF amount = 0 THEN "ZeroAmount"
    ELSE IF collateralAmount[a] < amount THEN "InsufficientCollateral"
    ELSE IF ~accepts THEN "CollateralTransferFailed"
    ELSE "none"

\* Mutant: withdraw refused to an account that chose no currency.
WithdrawErrNeedsCurrency(a, amount, accepts) ==
    IF paused THEN "ContractPaused"
    ELSE IF amount = 0 THEN "ZeroAmount"
    ELSE IF collateralAmount[a] < amount THEN "InsufficientCollateral"
    ELSE IF ~hasCurrency[a] THEN "NoCurrencySet"
    ELSE IF ~accepts THEN "CollateralTransferFailed"
    ELSE "none"

WithdrawErr(a, amount, accepts) ==
    IF paused THEN "ContractPaused"
    ELSE IF amount = 0 THEN "ZeroAmount"
    ELSE IF collateralAmount[a] < amount THEN "InsufficientCollateral"
    ELSE IF borrowedAmount[a] > 0 /\ HealthFactor(collateralAmount[a] - amount, borrowedAmount[a], userCurrency[a]) < PRECISION
         THEN "WithdrawWouldLiquidate"
    ELSE IF ~accepts THEN "CollateralTransferFailed"
    ELSE "none"

\* accepts: whether the caller's account accepts the payout (a contract may
\* reject it).
WithdrawCollateral(a, amount, accepts) ==
    LET err == WithdrawErr(a, amount, accepts) IN
    IF err # "none" THEN Revert
    ELSE /\ collateralAmount' = [collateralAmount EXCEPT ![a] = @ - amount]
         /\ wallet' = [wallet EXCEPT ![a] = @ + amount]
         /\ engineBalance' = engineBalance - amount
         /\ last' = Call("withdrawCollateral", a, amount, "-", "-")
         /\ UNCHANGED <<borrowedAmount, userCurrency, hasCurrency, registry, ledgers, admin, prices>>

\* Mutant: the currency locked for good once it was chosen.
SetCurrencyErrLockedOnceSet(a) ==
    IF paused THEN "ContractPaused"
    ELSE IF borrowedAmount[a] > 0 \/ hasCurrency[a] THEN "CurrencyLockedWhileInDebt"
    ELSE "none"

SetCurrencyErr(a) ==
    IF paused THEN "ContractPaused"
    ELSE IF borrowedAmount[a] > 0 THEN "CurrencyLockedWhileInDebt"
    ELSE "none"

SetCurrency(a, currency) ==
    LET err == SetCurrencyErr(a) IN
    IF err # "none" THEN Revert
    ELSE /\ userCurrency' = [userCurrency EXCEPT ![a] = currency]
         /\ hasCurrency' = [hasCurrency EXCEPT ![a] = TRUE]
         /\ TrackBorrower(a)
         /\ last' = Call("setCurrency", a, 0, currency, "-")
         /\ UNCHANGED <<collateralAmount, borrowedAmount, ledgers, native, admin, prices>>

\* Mutant: borrow(uint256) without the check that a currency was chosen.
BorrowErrNoCurrencyCheck(a, amount) ==
    IF paused THEN "ContractPaused"
    ELSE IF amount = 0 THEN "ZeroAmount"
    ELSE IF collateralAmount[a] = 0 THEN "InsufficientCollateral"
    ELSE ExecuteBorrowErr(a, amount, userCurrency[a])

\* borrow(uint256)
BorrowErr(a, amount) ==
    IF paused THEN "ContractPaused"
    ELSE IF amount = 0 THEN "ZeroAmount"
    ELSE IF collateralAmount[a] = 0 THEN "InsufficientCollateral"
    ELSE IF ~hasCurrency[a] THEN "NoCurrencySet"
    ELSE ExecuteBorrowErr(a, amount, userCurrency[a])

Borrow(a, amount) ==
    LET err == BorrowErr(a, amount) IN
    IF err # "none" THEN Revert
    ELSE /\ ExecuteBorrow(a, amount, userCurrency[a])
         /\ last' = Call("borrow", a, amount, "-", "-")
         /\ UNCHANGED <<collateralAmount, userCurrency, hasCurrency, minter, native, admin, prices>>

\* Mutant: borrow(uint256, Currency) without the currency lock.
BorrowInErrNoLock(a, amount, currency) ==
    IF paused THEN "ContractPaused"
    ELSE IF amount = 0 THEN "ZeroAmount"
    ELSE IF collateralAmount[a] = 0 THEN "InsufficientCollateral"
    ELSE ExecuteBorrowErr(a, amount, currency)

\* borrow(uint256, Currency)
BorrowInErr(a, amount, currency) ==
    IF paused THEN "ContractPaused"
    ELSE IF amount = 0 THEN "ZeroAmount"
    ELSE IF collateralAmount[a] = 0 THEN "InsufficientCollateral"
    ELSE IF borrowedAmount[a] > 0 /\ userCurrency[a] # currency
         THEN "CurrencyLockedWhileInDebt"
    ELSE ExecuteBorrowErr(a, amount, currency)

BorrowIn(a, amount, currency) ==
    LET err == BorrowInErr(a, amount, currency) IN
    IF err # "none" THEN Revert
    ELSE /\ userCurrency' = [userCurrency EXCEPT ![a] = currency]
         /\ hasCurrency' = [hasCurrency EXCEPT ![a] = TRUE]
         /\ ExecuteBorrow(a, amount, currency)
         /\ last' = Call("borrowIn", a, amount, currency, "-")
         /\ UNCHANGED <<collateralAmount, minter, native, admin, prices>>

\* Mutant: the branches of the clamp swapped.
ToRepaySwapped(amount, debt) == IF amount > debt THEN amount ELSE debt

ToRepay(amount, debt) == IF amount > debt THEN debt ELSE amount

\* Mutant: repay rejects an amount above the debt.
RepayErrRejectsOverpayment(a, amount) ==
    IF paused THEN "ContractPaused"
    ELSE IF amount = 0 THEN "ZeroAmount"
    ELSE IF borrowedAmount[a] = 0 THEN "NoBorrowedDebt"
    ELSE IF amount > borrowedAmount[a] THEN "InsufficientBalance"
    ELSE BurnErr(userCurrency[a], Engine, a, amount)

RepayErr(a, amount) ==
    IF paused THEN "ContractPaused"
    ELSE IF amount = 0 THEN "ZeroAmount"
    ELSE IF borrowedAmount[a] = 0 THEN "NoBorrowedDebt"
    ELSE BurnErr(userCurrency[a], Engine, a, ToRepay(amount, borrowedAmount[a]))

Repay(a, amount) ==
    LET err == RepayErr(a, amount)
        toRepay == ToRepay(amount, borrowedAmount[a])
        cur == userCurrency[a]
    IN
    IF err # "none" THEN Revert
    ELSE /\ borrowedAmount' = [borrowedAmount EXCEPT ![a] = @ - toRepay]
         /\ balanceOf' = BurnBalances(cur, a, toRepay)
         /\ totalSupply' = BurnSupply(cur, toRepay)
         /\ last' = Call("repay", a, amount, "-", "-")
         /\ UNCHANGED <<collateralAmount, userCurrency, hasCurrency, registry, minter, native, admin, prices>>

\* ------------------------------------------------- LendingEngine, liquidation

DebtInBNB(debt, price) == (debt * PRICE_DECIMALS) \div price

Bonus(debtInBNB) == (debtInBNB * LIQUIDATION_BONUS) \div 100

\* Mutant: the seizure without the cap at the user's collateral.
TotalSeizeUncapped(debt, price, userCol) ==
    DebtInBNB(debt, price) + Bonus(DebtInBNB(debt, price))

TotalSeize(debt, price, userCol) ==
    LET debtInBNB == DebtInBNB(debt, price)
        totalSeize == debtInBNB + Bonus(debtInBNB)
    IN  IF totalSeize > userCol THEN userCol ELSE totalSeize

\* Mutant: liquidate without the health check.
LiquidateErrNoHealthCheck(caller, user, accepts) ==
    LET debt == borrowedAmount[user]
        cur == userCurrency[user]
    IN
    IF paused THEN "ContractPaused"
    ELSE IF debt = 0 THEN "NoBorrowedDebt"
    ELSE IF balanceOf[cur][caller] < debt THEN "InsufficientDebtBalance"
    ELSE IF ~accepts THEN "CollateralTransferFailed"
    ELSE "none"

\* Mutant: liquidate counting the caller's units of both ledgers.
LiquidateErrAnyUnits(caller, user, accepts) ==
    LET debt == borrowedAmount[user] IN
    IF paused THEN "ContractPaused"
    ELSE IF CalculateHealthFactor(user) >= PRECISION THEN "PositionHealthy"
    ELSE IF debt = 0 THEN "NoBorrowedDebt"
    ELSE IF balanceOf[USD][caller] + balanceOf[INR][caller] < debt THEN "InsufficientDebtBalance"
    ELSE IF ~accepts THEN "CollateralTransferFailed"
    ELSE "none"

\* Mutant: liquidate refusing a caller that holds exactly the debt.
LiquidateErrNeedsSurplus(caller, user, accepts) ==
    LET debt == borrowedAmount[user]
        cur == userCurrency[user]
    IN
    IF paused THEN "ContractPaused"
    ELSE IF CalculateHealthFactor(user) >= PRECISION THEN "PositionHealthy"
    ELSE IF debt = 0 THEN "NoBorrowedDebt"
    ELSE IF balanceOf[cur][caller] <= debt THEN "InsufficientDebtBalance"
    ELSE IF BurnErr(cur, Engine, caller, debt) # "none" THEN BurnErr(cur, Engine, caller, debt)
    ELSE IF ~accepts THEN "CollateralTransferFailed"
    ELSE "none"

LiquidateErr(caller, user, accepts) ==
    LET debt == borrowedAmount[user]
        cur == userCurrency[user]
    IN
    IF paused THEN "ContractPaused"
    ELSE IF CalculateHealthFactor(user) >= PRECISION THEN "PositionHealthy"
    ELSE IF debt = 0 THEN "NoBorrowedDebt"
    ELSE IF balanceOf[cur][caller] < debt THEN "InsufficientDebtBalance"
    ELSE IF BurnErr(cur, Engine, caller, debt) # "none" THEN BurnErr(cur, Engine, caller, debt)
    ELSE IF ~accepts THEN "CollateralTransferFailed"
    ELSE "none"

Liquidate(caller, user, accepts) ==
    LET err == LiquidateErr(caller, user, accepts)
        debt == borrowedAmount[user]
        cur == userCurrency[user]
        price == GetLatestPrice(cur)
        totalSeize == TotalSeize(debt, price, collateralAmount[user])
    IN
    IF err # "none" THEN Revert
    ELSE /\ borrowedAmount' = [borrowedAmount EXCEPT ![user] = 0]
         /\ collateralAmount' = [collateralAmount EXCEPT ![user] = @ - totalSeize]
         /\ balanceOf' = BurnBalances(cur, caller, debt)
         /\ totalSupply' = BurnSupply(cur, debt)
         /\ wallet' = [wallet EXCEPT ![caller] = @ + totalSeize]
         /\ engineBalance' = engineBalance - totalSeize
         /\ last' = [Call("liquidate", caller, 0, cur, user) EXCEPT
                        !.debt = debt, !.seized = totalSeize,
                        !.bonus = Bonus(DebtInBNB(debt, price))]
         /\ UNCHANGED <<userCurrency, hasCurrency, registry, minter, admin, prices>>

\* --------------------------------------------------- LendingEngine, admin

OnlyOwnerErr(caller) == IF caller # owner THEN "NotOwner" ELSE "none"

SetPaused(caller, flag) ==
    IF OnlyOwnerErr(caller) # "none" THEN Revert
    ELSE /\ paused' = flag
         /\ last' = Call("setPaused", caller, 0, "-", "-")
         /\ UNCHANGED <<positions, registry, ledgers, native, owner, prices>>

TransferOwnership(caller, newOwner) ==
    IF OnlyOwnerErr(caller) # "none" THEN Revert
    ELSE /\ owner' = newOwner
         /\ last' = Call("transferOwnership", caller, 0, "-", newOwner)
         /\ UNCHANGED <<positions, registry, ledgers, native, paused, prices>>

\* ------------------------------------------------------- DebtToken, actions

TransferErr(cur, from, to, amount) ==
    IF to = ZeroAddr THEN "ZeroAddress"
    ELSE IF balanceOf[cur][from] < amount THEN "InsufficientBalance"
    ELSE "none"

TransferBalances(cur, from, to, amount) ==
    LET debited == [balanceOf EXCEPT ![cur][from] = @ - amount]
    IN  [debited EXCEPT ![cur][to] = @ + amount]

\* transfer(to, amount) on the ledger of cur, called by a holder.
Transfer(cur, from, to, amount) ==
    LET err == TransferErr(cur, from, to, amount) IN
    IF err # "none" THEN Revert
    ELSE /\ balanceOf' = TransferBalances(cur, from, to, amount)
         /\ last' = Call("transfer", from, amount, cur, to)
         /\ UNCHANGED <<positions, registry, totalSupply, minter, native, admin, prices>>

\* mint(to, amount) called directly by an account.
Mint(cur, sender, to, amount) ==
    LET err == MintErr(cur, sender, to) IN
    IF err # "none" THEN Revert
    ELSE /\ balanceOf' = MintBalances(cur, to, amount)
         /\ totalSupply' = MintSupply(cur, amount)
         /\ last' = Call("mint", sender, amount, cur, to)
         /\ UNCHANGED <<positions, registry, minter, native, admin, prices>>

\* burn(from, amount) called directly by an account.
Burn(cur, sender, from, amount) ==
    LET err == BurnErr(cur, sender, from, amount) IN
    IF err # "none" THEN Revert
    ELSE /\ balanceOf' = BurnBalances(cur, from, amount)
         /\ totalSupply' = BurnSupply(cur, amount)
         /\ last' = Call("burn", sender, amount, cur, from)
         /\ UNCHANGED <<positions, registry, minter, native, admin, prices>>

\* Mutant: setMinter without the set-once check.
SetMinterErrResettable(cur, sender, newMinter) ==
    IF sender # Deployer THEN "Unauthorized"
    ELSE IF newMinter = ZeroAddr THEN "ZeroAddress"
    ELSE "none"

\* The ledger's owner is its deployer, for good: DebtToken has no function
\* that writes owner.
SetMinterErr(cur, sender, newMinter) ==
    IF sender # Deployer THEN "Unauthorized"
    ELSE IF minter[cur] # ZeroAddr THEN "MinterAlreadySet"
    ELSE IF newMinter = ZeroAddr THEN "ZeroAddress"
    ELSE "none"

SetMinter(cur, sender, newMinter) ==
    LET err == SetMinterErr(cur, sender, newMinter) IN
    IF err # "none" THEN Revert
    ELSE /\ minter' = [minter EXCEPT ![cur] = newMinter]
         /\ last' = Call("setMinter", sender, 0, cur, newMinter)
         /\ UNCHANGED <<positions, registry, totalSupply, balanceOf, native, admin, prices>>

\* --------------------------------------------------- PriceConsumer, actions

\* Mutant: updatePrice without the check of the rate.
UpdatePriceErrAnyRate(sender, newPrice) ==
    IF sender # oracleOwner THEN "Unauthorized" ELSE "none"

UpdatePriceErr(sender, newPrice) ==
    IF sender # oracleOwner THEN "Unauthorized"
    ELSE IF newPrice = 0 THEN "InvalidPrice"
    ELSE "none"

\* Mutant: updatePrice stamping both currencies.
UpdatedAtBoth(cur) == [c \in Currencies |-> now]

\* lastUpdatedAt[key] = block.timestamp
UpdatedAt(cur) == [lastUpdatedAt EXCEPT ![cur] = now]

UpdatePrice(sender, cur, newPrice) ==
    LET err == UpdatePriceErr(sender, newPrice) IN
    IF err # "none" THEN Revert
    ELSE /\ prices' = [prices EXCEPT ![cur] = newPrice]
         /\ lastUpdatedAt' = UpdatedAt(cur)
         /\ last' = Call("updatePrice", sender, 0, cur, "-")
         /\ UNCHANGED <<positions, registry, ledgers, native, admin, oracleOwner, now>>

\* Mutant: updateBothPrices checking the USD rate only.
UpdateBothPricesErrChecksUSD(sender, newUSDPrice, newINRPrice) ==
    IF sender # oracleOwner THEN "Unauthorized"
    ELSE IF newUSDPrice = 0 THEN "InvalidPrice"
    ELSE "none"

UpdateBothPricesErr(sender, newUSDPrice, newINRPrice) ==
    IF sender # oracleOwner THEN "Unauthorized"
    ELSE IF newUSDPrice = 0 \/ newINRPrice = 0 THEN "InvalidPrice"
    ELSE "none"

UpdateBothPrices(sender, newUSDPrice, newINRPrice) ==
    LET err == UpdateBothPricesErr(sender, newUSDPrice, newINRPrice)
    IN
    IF err # "none" THEN Revert
    ELSE /\ prices' = [c \in Currencies |-> IF c = USD THEN newUSDPrice ELSE newINRPrice]
         /\ lastUpdatedAt' = [c \in Currencies |-> now]
         /\ last' = Call("updateBothPrices", sender, 0, "-", "-")
         /\ UNCHANGED <<positions, registry, ledgers, native, admin, oracleOwner, now>>

\* ------------------------------------------------------------ the system

\* The PriceConsumer after its constructor: owned by its deployer, both
\* rates stamped with the time of the deployment.
OracleInit ==
    /\ oracleOwner = Deployer
    /\ now = 0
    /\ lastUpdatedAt = [c \in Currencies |-> 0]

\* No engine call in execution.
NoFrame == [op |-> "-"]
NoSnapshot == [op |-> "-"]

TxInit ==
    /\ pc = "idle"
    /\ frame = NoFrame
    /\ snapshot = NoSnapshot

\* The LiquidationArchive after its constructor: owned by its deployer, no
\* relayer registered, no record.
ArchiveInit ==
    /\ liquidations = <<>>
    /\ totalDebtRepaidUSD = 0
    /\ totalDebtRepaidINR = 0
    /\ totalCollateralSeized = 0
    /\ totalLiquidationEvents = 0
    /\ liquidationCount = [a \in Users |-> 0]
    /\ archiveOwner = Deployer
    /\ loggerBot = ZeroAddr

\* The deployment of deployAll (src/unnamed/part_002, lines 20-49) and of
\* scripts/deploy-bsc.js: the oracle seeded with two valid rates, the two
\* ledgers with the engine wired as their minter, the engine owned by its
\* deployer and not paused, no position.
Init ==
    /\ collateralAmount = [a \in Users |-> 0]
    /\ borrowedAmount = [a \in Users |-> 0]
    /\ userCurrency = [a \in Users |-> USD]
    /\ hasCurrency = [a \in Users |-> FALSE]
    /\ borrowers = <<>>
    /\ isBorrower = [a \in Users |-> FALSE]
    /\ owner = Deployer
    /\ paused = FALSE
    /\ engineBalance = 0
    /\ totalSupply = [c \in Currencies |-> 0]
    /\ balanceOf = [c \in Currencies |-> [a \in Users |-> 0]]
    /\ minter = [c \in Currencies |-> Engine]
    /\ prices = [c \in Currencies |-> PRICE_DECIMALS]
    /\ wallet = [a \in Users |-> IF a = "alice" THEN Unit ELSE 0]
    /\ last = Call("deploy", Deployer, 0, "-", "-")
    /\ TxInit
    /\ ArchiveInit
    /\ OracleInit

\* The arguments the model's callers pass.
Part == BorrowLot \div 3
DepositAmounts == {0, Unit \div 2, Unit}
WithdrawAmounts(a) == {0, Unit \div 2, collateralAmount[a], collateralAmount[a] + 1}
BorrowAmounts == {0, Part, BorrowLot, BorrowLot + 1}
RepayAmounts(a) == {0, Part, borrowedAmount[a] + 1}
TransferAmounts(c, a) == {Part, balanceOf[c][a], balanceOf[c][a] + 1} \ {0}

\* The rate pairs posted in one call: the two rates move together, or one of
\* them is invalid.
BothPrices ==
    {<<p, p>> : p \in Prices} \cup {<<0, PRICE_DECIMALS>>, <<PRICE_DECIMALS, 0>>}

\* A call run as one step: no call frame is left behind, and the archive,
\* which lives on another chain, is not touched.
Whole == UNCHANGED <<txvars, archive, oracle>>

\* The same for a call of the oracle, which writes its own storage.
WholeOracle == UNCHANGED <<txvars, archive>>

Next ==
    \/ Whole /\ \E a \in Users, v \in DepositAmounts : DepositCollateral(a, v)
    \/ Whole /\ \E a \in Users, v \in DepositAmounts : Receive(a, v)
    \/ Whole /\ \E a \in Users, ok \in BOOLEAN : \E v \in WithdrawAmounts(a) : WithdrawCollateral(a, v, ok)
    \/ Whole /\ \E a \in Users, c \in Currencies : SetCurrency(a, c)
    \/ Whole /\ \E a \in Users, v \in BorrowAmounts : Borrow(a, v)
    \/ Whole /\ \E a \in Users, v \in BorrowAmounts, c \in Currencies : BorrowIn(a, v, c)
    \/ Whole /\ \E a \in Users : \E v \in RepayAmounts(a) : Repay(a, v)
    \/ Whole /\ \E a \in Users, u \in Users, ok \in BOOLEAN : Liquidate(a, u, ok)
    \/ Whole /\ \E a \in Admins, f \in BOOLEAN : SetPaused(a, f)
    \/ Whole /\ \E c \in Currencies, a \in Users, b \in Users : \E v \in TransferAmounts(c, a) : Transfer(c, a, b, v)
    \/ Whole /\ \E c \in Currencies, a \in Users : Mint(c, a, a, Part)
    \/ Whole /\ \E c \in Currencies, a \in Users : Burn(c, a, a, Part)
    \/ Whole /\ \E c \in Currencies, a \in Admins : SetMinter(c, a, Engine)
    \/ WholeOracle /\ \E a \in Admins, c \in Currencies, p \in Prices \cup {0} : UpdatePrice(a, c, p)
    \/ WholeOracle /\ \E a \in Admins, pq \in BothPrices : UpdateBothPrices(a, pq[1], pq[2])

Spec == Init /\ [][Next]_vars

\* The system with the engine's ownership changing hands as well.
NextAdmin ==
    \/ Next
    \/ Whole /\ \E a \in Admins, n \in Admins : TransferOwnership(a, n)

SpecAdmin == Init /\ [][NextAdmin]_vars

\* ------------------------------------------------- the system with a keeper

\* A holder of enough units of the position's currency to repay its debt.
Funded(a, u) == balanceOf[userCurrency[u]][a] >= borrowedAmount[u]

\* The keeper's call: liquidate(u) by a funded account that accepts the
\* payout.
KeeperLiquidates(u) ==
    Whole /\ \E a \in Users : Funded(a, u) /\ Liquidate(a, u, TRUE)

\* The system with funded accounts that keep calling liquidate: a call that
\* stays possible is made.
SpecKeeper == Spec /\ \A u \in Users : WF_vars(KeeperLiquidates(u))

\* ======================================================= the ledgers alone

\* The two DebtTokens from their construction, before deployAll wires them:
\* no minter registered.  Every account calls them directly.
MaxSupply == 3
LedgerCallers == Users \cup {Deployer, Engine}
Minters == {Engine, "bob", ZeroAddr}
LedgerAmounts == {1, 2}

InitLedger ==
    /\ collateralAmount = [a \in Users |-> 0]
    /\ borrowedAmount = [a \in Users |-> 0]
    /\ userCurrency = [a \in Users |-> USD]
    /\ hasCurrency = [a \in Users |-> FALSE]
    /\ borrowers = <<>>
    /\ isBorrower = [a \in Users |-> FALSE]
    /\ owner = Deployer
    /\ paused = FALSE
    /\ engineBalance = 0
    /\ totalSupply = [c \in Currencies |-> 0]
    /\ balanceOf = [c \in Currencies |-> [a \in Users |-> 0]]
    /\ minter = [c \in Currencies |-> ZeroAddr]
    /\ prices = [c \in Currencies |-> PRICE_DECIMALS]
    /\ wallet = [a \in Users |-> 0]
    /\ last = Call("deploy", Deployer, 0, "-", "-")
    /\ TxInit
    /\ ArchiveInit
    /\ OracleInit

NextLedger ==
    \/ Whole /\ \E c \in Currencies, a \in LedgerCallers, m \in Minters : SetMinter(c, a, m)
    \/ Whole /\ \E c \in Currencies, a \in LedgerCallers, to \in Users \cup {ZeroAddr}, v \in LedgerAmounts :
                   totalSupply[c] + v <= MaxSupply /\ Mint(c, a, to, v)
    \/ Whole /\ \E c \in Currencies, a \in LedgerCallers, from \in Users, v \in LedgerAmounts : Burn(c, a, from, v)
    \/ Whole /\ \E c \in Currencies, a \in Users, b \in Users \cup {ZeroAddr}, v \in LedgerAmounts : Transfer(c, a, b, v)

SpecLedger == InitLedger /\ [][NextLedger]_vars

\* ============================================ calls, one storage write at a time

\* The storage an engine call can write: the engine's positions and registry,
\* the ledgers' balances and supplies, and the native balances.
Storage ==
    [collateralAmount |-> collateralAmount, borrowedAmount |-> borrowedAmount,
     userCurrency |-> userCurrency, hasCurrency |-> hasCurrency,
     borrowers |-> borrowers, isBorrower |-> isBorrower,
     totalSupply |-> totalSupply, balanceOf |-> balanceOf,
     engineBalance |-> engineBalance, wallet |-> wallet]

\* Mutant: a revert that keeps the writes made so far.
RolledBackKeepsWrites(snap, written) == written

\* The storage after a revert: the EVM restores the state of the call's entry.
RolledBack(snap, written) == snap

\* The call in execution reverts with err; the caller is left with the error
\* and none of the call's locals.
Fail(err) ==
    LET back == RolledBack(snapshot, Storage) IN
    /\ collateralAmount' = back.collateralAmount
    /\ borrowedAmount' = back.borrowedAmount
    /\ userCurrency' = back.userCurrency
    /\ hasCurrency' = back.hasCurrency
    /\ borrowers' = back.borrowers
    /\ isBorrower' = back.isBorrower
    /\ totalSupply' = back.totalSupply
    /\ balanceOf' = back.balanceOf
    /\ engineBalance' = back.engineBalance
    /\ wallet' = back.wallet
    /\ pc' = "reverted"
    /\ frame' = [frame EXCEPT !.err = err, !.amount = 0, !.debt = 0, !.seize = 0]
    /\ UNCHANGED <<snapshot, minter, admin, prices, oracle, last, archive>>

\* The call in execution returns.
Finish ==
    /\ pc' = "idle"
    /\ frame' = NoFrame
    /\ snapshot' = NoSnapshot

\* The next position of the call, wrote telling whether storage was written
\* on the way.
Goto(label, wrote) ==
    /\ pc' = label
    /\ frame' = [frame EXCEPT !.dirty = @ \/ wrote]
    /\ UNCHANGED snapshot

\* What no step of an engine call writes.
Fixed == UNCHANGED <<minter, admin, prices, oracle, last, archive>>

\* The caller sends a call to the engine: the EVM takes the snapshot a revert
\* returns to and moves msg.value (value > 0 for the payable functions only).
TxCall(op, caller, amount, cur, user, value) ==
    /\ pc = "idle"
    /\ value <= wallet[caller]
    /\ pc' = "entry"
    /\ frame' = [op |-> op, caller |-> caller, amount |-> amount, cur |-> cur,
                 user |-> user, err |-> "none",
                 dirty |-> value > 0, debt |-> 0, seize |-> 0]
    /\ snapshot' = Storage
    /\ wallet' = [wallet EXCEPT ![caller] = @ - value]
    /\ engineBalance' = engineBalance + value
    /\ UNCHANGED <<positions, registry, ledgers, admin, prices, oracle, last, archive>>

\* The caller is back from a reverted call.
TxReturn ==
    /\ pc = "reverted"
    /\ Finish
    /\ UNCHANGED <<state, last, archive>>

\* depositCollateral(), the body after the value has arrived.
TxDepositCollateral ==
    LET a == frame.caller
        err == DepositErr(frame.amount)
    IN
    /\ pc = "entry" /\ frame.op = "depositCollateral"
    /\ IF err # "none" THEN Fail(err)
       ELSE /\ collateralAmount' = [collateralAmount EXCEPT ![a] = @ + frame.amount]
            /\ TrackBorrower(a)
            /\ Finish
            /\ UNCHANGED <<borrowedAmount, userCurrency, hasCurrency, totalSupply, balanceOf, native>>
            /\ Fixed

\* receive(), the body after the value has arrived.
TxReceive ==
    LET a == frame.caller IN
    /\ pc = "entry" /\ frame.op = "receive"
    /\ IF frame.amount > 0
       THEN /\ collateralAmount' = [collateralAmount EXCEPT ![a] = @ + frame.amount]
            /\ TrackBorrower(a)
       ELSE UNCHANGED <<collateralAmount, registry>>
    /\ Finish
    /\ UNCHANGED <<borrowedAmount, userCurrency, hasCurrency, totalSupply, balanceOf, native>>
    /\ Fixed

\* Mutant: withdrawCollateral debiting without the check of the collateral.
WithdrawEntryErrNoCollateralCheck(a, amount) ==
    IF paused THEN "ContractPaused"
    ELSE IF amount = 0 THEN "ZeroAmount"
    ELSE "none"

\* withdrawCollateral, up to the debit of the collateral.
WithdrawEntryErr(a, amount) ==
    IF paused THEN "ContractPaused"
    ELSE IF amount = 0 THEN "ZeroAmount"
    ELSE IF collateralAmount[a] < amount THEN "InsufficientCollateral"
    ELSE "none"

TxWithdrawDebit ==
    LET a == frame.caller
        err == WithdrawEntryErr(a, frame.amount)
    IN
    /\ pc = "entry" /\ frame.op = "withdrawCollateral"
    /\ IF err # "none" THEN Fail(err)
       ELSE /\ collateralAmount' = [collateralAmount EXCEPT ![a] = @ - frame.amount]
            /\ pc' = "health"
            /\ frame' = [frame EXCEPT !.dirty = TRUE, !.seize = frame.amount]
            /\ UNCHANGED <<snapshot, borrowedAmount, userCurrency, hasCurrency, registry, totalSupply, balanceOf, native>>
            /\ Fixed

\* withdrawCollateral, the health check on the debited position.
TxWithdrawHealth ==
    LET a == frame.caller IN
    /\ pc = "health"
    /\ IF borrowedAmount[a] > 0 /\ CalculateHealthFactor(a) < PRECISION
       THEN Fail("WithdrawWouldLiquidate")
       ELSE /\ Goto("payout", FALSE)
            /\ UNCHANGED <<positions, registry, totalSupply, balanceOf, native>>
            /\ Fixed

\* The payout of withdrawCollateral and of liquidate: payable(msg.sender).call,
\* which the receiver accepts or rejects.
TxPayout(accepts) ==
    LET a == frame.caller IN
    /\ pc = "payout"
    /\ IF ~accepts THEN Fail("CollateralTransferFailed")
       ELSE /\ wallet' = [wallet EXCEPT ![a] = @ + frame.seize]
            /\ engineBalance' = engineBalance - frame.seize
            /\ Finish
            /\ UNCHANGED <<positions, registry, totalSupply, balanceOf>>
            /\ Fixed

TxSetCurrency ==
    LET a == frame.caller
        err == SetCurrencyErr(a)
    IN
    /\ pc = "entry" /\ frame.op = "setCurrency"
    /\ IF err # "none" THEN Fail(err)
       ELSE /\ userCurrency' = [userCurrency EXCEPT ![a] = frame.cur]
            /\ hasCurrency' = [hasCurrency EXCEPT ![a] = TRUE]
            /\ TrackBorrower(a)
            /\ Finish
            /\ UNCHANGED <<collateralAmount, borrowedAmount, totalSupply, balanceOf, native>>
            /\ Fixed

\* borrow(uint256), up to the call of _executeBorrow.
BorrowEntryErr(a, amount) ==
    IF paused THEN "ContractPaused"
    ELSE IF amount = 0 THEN "ZeroAmount"
    ELSE IF collateralAmount[a] = 0 THEN "InsufficientCollateral"
    ELSE IF ~hasCurrency[a] THEN "NoCurrencySet"
    ELSE "none"

TxBorrow ==
    LET a == frame.caller
        err == BorrowEntryErr(a, frame.amount)
    IN
    /\ pc = "entry" /\ frame.op = "borrow"
    /\ IF err # "none" THEN Fail(err)
       ELSE /\ pc' = "executeBorrow"
            /\ frame' = [frame EXCEPT !.cur = userCurrency[a]]
            /\ UNCHANGED <<snapshot, positions, registry, totalSupply, balanceOf, native>>
            /\ Fixed

\* borrow(uint256, Currency), up to the call of _executeBorrow: the currency
\* is written before the borrow ceiling is checked.
BorrowInEntryErr(a, amount, currency) ==
    IF paused THEN "ContractPaused"
    ELSE IF amount = 0 THEN "ZeroAmount"
    ELSE IF collateralAmount[a] = 0 THEN "InsufficientCollateral"
    ELSE IF borrowedAmount[a] > 0 /\ userCurrency[a] # currency
         THEN "CurrencyLockedWhileInDebt"
    ELSE "none"

TxBorrowIn ==
    LET a == frame.caller
        err == BorrowInEntryErr(a, frame.amount, frame.cur)
        writes == ~hasCurrency[a] \/ userCurrency[a] # frame.cur
    IN
    /\ pc = "entry" /\ frame.op = "borrowIn"
    /\ IF err # "none" THEN Fail(err)
       ELSE /\ userCurrency' = [userCurrency EXCEPT ![a] = frame.cur]
            /\ hasCurrency' = [hasCurrency EXCEPT ![a] = TRUE]
            /\ Goto("executeBorrow", writes)
            /\ UNCHANGED <<collateralAmount, borrowedAmount, registry, totalSupply, balanceOf, native>>
            /\ Fixed

\* _executeBorrow, up to the call of the ledger's mint.
TxExecuteBorrow ==
    LET a == frame.caller IN
    /\ pc = "executeBorrow"
    /\ IF borrowedAmount[a] + frame.amount > MaxBorrow(a, frame.cur)
       THEN Fail("BorrowLimitExceeded")
       ELSE /\ borrowedAmount' = [borrowedAmount EXCEPT ![a] = @ + frame.amount]
            /\ TrackBorrower(a)
            /\ Goto("mint", TRUE)
            /\ UNCHANGED <<collateralAmount, userCurrency, hasCurrency, totalSupply, balanceOf, native>>
            /\ Fixed

\* _executeBorrow, the ledger's mint called by the engine.
TxMint ==
    LET a == frame.caller
        err == MintErr(frame.cur, Engine, a)
    IN
    /\ pc = "mint"
    /\ IF err # "none" THEN Fail(err)
       ELSE /\ balanceOf' = MintBalances(frame.cur, a, frame.amount)
            /\ totalSupply' = MintSupply(frame.cur, frame.amount)
            /\ Finish
            /\ UNCHANGED <<positions, registry, native>>
            /\ Fixed

\* repay, up to the call of the ledger's burn.
RepayEntryErr(a, amount) ==
    IF paused THEN "ContractPaused"
    ELSE IF amount = 0 THEN "ZeroAmount"
    ELSE IF borrowedAmount[a] = 0 THEN "NoBorrowedDebt"
    ELSE "none"

TxRepay ==
    LET a == frame.caller
        err == RepayEntryErr(a, frame.amount)
        toRepay == ToRepay(frame.amount, borrowedAmount[a])
    IN
    /\ pc = "entry" /\ frame.op = "repay"
    /\ IF err # "none" THEN Fail(err)
       ELSE /\ borrowedAmount' = [borrowedAmount EXCEPT ![a] = @ - toRepay]
            /\ pc' = "burn"
            /\ frame' = [frame EXCEPT !.dirty = TRUE, !.debt = toRepay,
                                      !.cur = userCurrency[a]]
            /\ UNCHANGED <<snapshot, collateralAmount, userCurrency, hasCurrency, registry, totalSupply, balanceOf, native>>
            /\ Fixed

\* liquidate, up to the call of the ledger's burn.
LiquidateEntryErr(caller, user) ==
    IF paused THEN "ContractPaused"
    ELSE IF CalculateHealthFactor(user) >= PRECISION THEN "PositionHealthy"
    ELSE IF borrowedAmount[user] = 0 THEN "NoBorrowedDebt"
    ELSE IF balanceOf[userCurrency[user]][caller] < borrowedAmount[user]
         THEN "InsufficientDebtBalance"
    ELSE "none"

TxLiquidate ==
    LET user == frame.user
        err == LiquidateEntryErr(frame.caller, user)
        debt == borrowedAmount[user]
        cur == userCurrency[user]
        totalSeize == TotalSeize(debt, GetLatestPrice(cur), collateralAmount[user])
    IN
    /\ pc = "entry" /\ frame.op = "liquidate"
    /\ IF err # "none" THEN Fail(err)
       ELSE /\ borrowedAmount' = [borrowedAmount EXCEPT ![user] = 0]
            /\ collateralAmount' = [collateralAmount EXCEPT ![user] = @ - totalSeize]
            /\ pc' = "burn"
            /\ frame' = [frame EXCEPT !.dirty = TRUE, !.debt = debt,
                                      !.seize = totalSeize, !.cur = cur]
            /\ UNCHANGED <<snapshot, userCurrency, hasCurrency, registry, totalSupply, balanceOf, native>>
            /\ Fixed

\* The ledger's burn called by the engine, from repay and from liquidate.
TxBurn ==
    LET a == frame.caller
        err == BurnErr(frame.cur, Engine, a, frame.debt)
    IN
    /\ pc = "burn"
    /\ IF err # "none" THEN Fail(err)
       ELSE /\ balanceOf' = BurnBalances(frame.cur, a, frame.debt)
            /\ totalSupply' = BurnSupply(frame.cur, frame.debt)
            /\ IF frame.op = "repay" THEN Finish ELSE Goto("payout", TRUE)
            /\ UNCHANGED <<positions, registry, native>>
            /\ Fixed

\* Between two engine calls: a holder moves debt units, the oracle's owner
\* posts a rate, the engine's owner sets the pause flag.
BetweenCalls == pc = "idle" /\ UNCHANGED <<txvars, last, archive>>

HolderTransfers(cur, from, to, amount) ==
    /\ BetweenCalls
    /\ TransferErr(cur, from, to, amount) = "none"
    /\ balanceOf' = TransferBalances(cur, from, to, amount)
    /\ UNCHANGED <<positions, registry, totalSupply, minter, native, admin, prices, oracle>>

RatePosted(cur, newPrice) ==
    /\ BetweenCalls
    /\ UpdatePriceErr(oracleOwner, newPrice) = "none"
    /\ prices' = [prices EXCEPT ![cur] = newPrice]
    /\ lastUpdatedAt' = UpdatedAt(cur)
    /\ UNCHANGED <<positions, registry, ledgers, native, admin, oracleOwner, now>>

PauseSet(flag) ==
    /\ BetweenCalls
    /\ OnlyOwnerErr(owner) = "none"
    /\ paused' = flag
    /\ UNCHANGED <<positions, registry, ledgers, native, owner, prices, oracle>>

NextTx ==
    \/ \E a \in Users, v \in DepositAmounts : TxCall("depositCollateral", a, v, "-", "-", v)
    \/ \E a \in Users, v \in DepositAmounts : TxCall("receive", a, v, "-", "-", v)
    \/ \E a \in Users : \E v \in WithdrawAmounts(a) : TxCall("withdrawCollateral", a, v, "-", "-", 0)
    \/ \E a \in Users, c \in Currencies : TxCall("setCurrency", a, 0, c, "-", 0)
    \/ \E a \in Users, v \in BorrowAmounts : TxCall("borrow", a, v, "-", "-", 0)
    \/ \E a \in Users, v \in BorrowAmounts, c \in Currencies : TxCall("borrowIn", a, v, c, "-", 0)
    \/ \E a \in Users : \E v \in RepayAmounts(a) : TxCall("repay", a, v, "-", "-", 0)
    \/ \E a \in Users, u \in Users : TxCall("liquidate", a, 0, "-", u, 0)
    \/ TxDepositCollateral
    \/ TxReceive
    \/ TxWithdrawDebit
    \/ TxWithdrawHealth
    \/ \E ok \in BOOLEAN : TxPayout(ok)
    \/ TxSetCurrency
    \/ TxBorrow
    \/ TxBorrowIn
    \/ TxExecuteBorrow
    \/ TxMint
    \/ TxRepay
    \/ TxLiquidate
    \/ TxBurn
    \/ TxReturn
    \/ \E c \in Currencies, a \in Users, b \in Users : \E v \in TransferAmounts(c, a) : HolderTransfers(c, a, b, v)
    \/ \E c \in Currencies, p \in Prices : RatePosted(c, p)
    \/ \E f \in BOOLEAN : PauseSet(f)

SpecTx == Init /\ [][NextTx]_<<vars, txvars>>

\* ------------------------------------ payouts with calls re-entered from them

\* The calls one payout's receiver makes back into the engine.
MaxReentries == 2

\* Mutant: liquidate clearing the debt after the payout only.
FinalizedDebtAfterPayout(user) == borrowedAmount

\* liquidate: borrowedAmount[user] = 0, written before the burn and the payout.
FinalizedDebt(user) == [borrowedAmount EXCEPT ![user] = 0]

\* Mutant: withdrawCollateral debiting the collateral after the payout only.
DebitedAfterPayout(a, amount) == collateralAmount

\* withdrawCollateral: collateralAmount[msg.sender] -= amount, written before
\* the payout.
Debited(a, amount) == [collateralAmount EXCEPT ![a] = @ - amount]

\* liquidate(u) by a, up to the moment the receiver's code runs: every check
\* has passed, the position is written, the debt is burned and the value of
\* the payout has moved to a.  The storage of the call's entry is kept for a
\* revert.
LiquidatePaysOut(a, u) ==
    LET debt == borrowedAmount[u]
        cur == userCurrency[u]
        price == GetLatestPrice(cur)
        totalSeize == TotalSeize(debt, price, collateralAmount[u])
    IN
    /\ pc = "idle"
    /\ LiquidateErr(a, u, TRUE) = "none"
    /\ borrowedAmount' = FinalizedDebt(u)
    /\ collateralAmount' = [collateralAmount EXCEPT ![u] = @ - totalSeize]
    /\ balanceOf' = BurnBalances(cur, a, debt)
    /\ totalSupply' = BurnSupply(cur, debt)
    /\ wallet' = [wallet EXCEPT ![a] = @ + totalSeize]
    /\ engineBalance' = engineBalance - totalSeize
    /\ pc' = "callback"
    /\ frame' = [op |-> "liquidate", caller |-> a, user |-> u, cur |-> cur,
                 amount |-> 0, debt |-> debt, seize |-> totalSeize,
                 bonus |-> Bonus(DebtInBNB(debt, price)), last |-> last,
                 entries |-> 0]
    /\ snapshot' = Storage
    /\ UNCHANGED <<userCurrency, hasCurrency, registry, minter, admin, prices,
                   oracle, last, archive>>

\* withdrawCollateral(amount) by a, up to the moment the receiver's code runs.
WithdrawPaysOut(a, amount) ==
    /\ pc = "idle"
    /\ WithdrawErr(a, amount, TRUE) = "none"
    /\ collateralAmount' = Debited(a, amount)
    /\ wallet' = [wallet EXCEPT ![a] = @ + amount]
    /\ engineBalance' = engineBalance - amount
    /\ pc' = "callback"
    /\ frame' = [op |-> "withdrawCollateral", caller |-> a, user |-> "-",
                 cur |-> "-", amount |-> amount, debt |-> 0, seize |-> amount,
                 bonus |-> 0, last |-> last, entries |-> 0]
    /\ snapshot' = Storage
    /\ UNCHANGED <<borrowedAmount, userCurrency, hasCurrency, registry, ledgers,
                   admin, prices, oracle, last, archive>>

\* The receiver's code calls the engine or a ledger, as itself, before it
\* returns; the call made is run whole, its own payout included.
Reentry ==
    /\ pc = "callback"
    /\ frame.entries < MaxReentries
    /\ frame' = [frame EXCEPT !.entries = @ + 1]
    /\ UNCHANGED <<pc, snapshot, archive, oracle>>

\* The receiver's code returns.  With ok the payout stands and the outer call
\* completes; otherwise the outer call reverts CollateralTransferFailed and
\* with it everything done since its entry, the re-entered calls included.
CallbackReturns(ok) ==
    /\ pc = "callback"
    /\ IF ok
       THEN /\ last' = [Call(frame.op, frame.caller, frame.amount, frame.cur, frame.user)
                            EXCEPT !.debt = frame.debt, !.seized = frame.seize,
                                   !.bonus = frame.bonus]
            /\ UNCHANGED state
       ELSE /\ collateralAmount' = snapshot.collateralAmount
            /\ borrowedAmount' = snapshot.borrowedAmount
            /\ userCurrency' = snapshot.userCurrency
            /\ hasCurrency' = snapshot.hasCurrency
            /\ borrowers' = snapshot.borrowers
            /\ isBorrower' = snapshot.isBorrower
            /\ totalSupply' = snapshot.totalSupply
            /\ balanceOf' = snapshot.balanceOf
            /\ engineBalance' = snapshot.engineBalance
            /\ wallet' = snapshot.wallet
            /\ last' = frame.last
            /\ UNCHANGED <<minter, admin, prices, oracle>>
    /\ Finish
    /\ UNCHANGED archive

\* A call made while no call is in execution, run whole.
AtRest == pc = "idle" /\ Whole

NextReentry ==
    \/ AtRest /\ \E a \in Users, v \in DepositAmounts : DepositCollateral(a, v)
    \/ AtRest /\ \E a \in Users, v \in {Part, BorrowLot}, c \in Currencies : BorrowIn(a, v, c)
    \/ AtRest /\ \E c \in Currencies, a \in Users, b \in Users : Transfer(c, a, b, balanceOf[c][a])
    \/ pc = "idle" /\ WholeOracle
                   /\ \E c \in Currencies, p \in Prices : UpdatePrice(oracleOwner, c, p)
    \/ \E a \in Users, u \in Users : LiquidatePaysOut(a, u)
    \/ \E a \in Users : \E v \in WithdrawAmounts(a) : WithdrawPaysOut(a, v)
    \/ Reentry /\ \E u \in Users, ok \in BOOLEAN : Liquidate(frame.caller, u, ok)
    \/ Reentry /\ \E ok \in BOOLEAN : \E v \in WithdrawAmounts(frame.caller) :
                      WithdrawCollateral(frame.caller, v, ok)
    \/ Reentry /\ \E v \in DepositAmounts : Receive(frame.caller, v)
    \/ Reentry /\ \E v \in {Part, BorrowLot}, c \in Currencies : BorrowIn(frame.caller, v, c)
    \/ Reentry /\ \E v \in RepayAmounts(frame.caller) : Repay(frame.caller, v)
    \/ \E ok \in BOOLEAN : CallbackReturns(ok)

SpecReentry == Init /\ [][NextReentry]_<<vars, txvars>>

\* ======================================================= LiquidationArchive

CURRENCY_USD == 0
CURRENCY_INR == 1

\* The archive stops taking records at MaxRecords.
MaxRecords == 3

\* The accounts that call the archive: its deployer, the relayer's wallet and
\* an outsider.
ArchiveCallers == {Deployer, "bot", "bob"}

\* The records the callers submit: valid ones and ones with a zero identity,
\* a zero debt or a currency tag out of range.
Submissions ==
    [borrower : Users \cup {ZeroAddr}, liquidator : {"bob", ZeroAddr},
     debtRepaid : {0, 5}, collateralSeized : {6}, bonusSeized : {1},
     currency : {CURRENCY_USD, CURRENCY_INR, 2},
     bscBlockNumber : {7}, bscTxHash : {"0xaa", "0xbb"}]

\* block.timestamp of the archive's chain at the call.
Timestamps == {1}

\* onlyAuthorised
OnlyAuthorisedErr(caller) ==
    IF caller # archiveOwner /\ caller # loggerBot THEN "Unauthorized" ELSE "none"

\* onlyOwner of the archive
ArchiveOnlyOwnerErr(caller) ==
    IF caller # archiveOwner THEN "Unauthorized" ELSE "none"

\* Mutant: logLiquidation open to every caller.
LogLiquidationErrAnyCaller(caller, r) ==
    IF r.borrower = ZeroAddr THEN "InvalidRecord"
    ELSE IF r.liquidator = ZeroAddr THEN "InvalidRecord"
    ELSE IF r.debtRepaid = 0 THEN "InvalidRecord"
    ELSE IF r.currency > 1 THEN "InvalidCurrency"
    ELSE "none"

\* Mutant: logLiquidation without the check of the currency tag.
LogLiquidationErrAnyCurrency(caller, r) ==
    IF OnlyAuthorisedErr(caller) # "none" THEN OnlyAuthorisedErr(caller)
    ELSE IF r.borrower = ZeroAddr THEN "InvalidRecord"
    ELSE IF r.liquidator = ZeroAddr THEN "InvalidRecord"
    ELSE IF r.debtRepaid = 0 THEN "InvalidRecord"
    ELSE "none"

\* logLiquidation: its revert reason.
LogLiquidationErr(caller, r) ==
    IF OnlyAuthorisedErr(caller) # "none" THEN OnlyAuthorisedErr(caller)
    ELSE IF r.borrower = ZeroAddr THEN "InvalidRecord"
    ELSE IF r.liquidator = ZeroAddr THEN "InvalidRecord"
    ELSE IF r.debtRepaid = 0 THEN "InvalidRecord"
    ELSE IF r.currency > 1 THEN "InvalidCurrency"
    ELSE "none"

\* The LiquidationRecord pushed for submission r at time t.
LiquidationRecord(r, t) ==
    [borrower |-> r.borrower, liquidator |-> r.liquidator,
     debtRepaid |-> r.debtRepaid, collateralSeized |-> r.collateralSeized,
     bonusSeized |-> r.bonusSeized, currency |-> r.currency, timestamp |-> t,
     bscBlockNumber |-> r.bscBlockNumber, bscTxHash |-> r.bscTxHash]

\* Mutant: the new record put in front of the others.
PushedInFront(records, rec) == <<rec>> \o records

\* liquidations.push(record)
Pushed(records, rec) == Append(records, rec)

\* Mutant: every repaid debt added to the USD total.
AddedDebtRepaidUSDAnyCurrency(r) == totalDebtRepaidUSD + r.debtRepaid

AddedDebtRepaidUSD(r) ==
    IF r.currency = CURRENCY_USD THEN totalDebtRepaidUSD + r.debtRepaid
    ELSE totalDebtRepaidUSD

AddedDebtRepaidINR(r) ==
    IF r.currency = CURRENCY_USD THEN totalDebtRepaidINR
    ELSE totalDebtRepaidINR + r.debtRepaid

\* logLiquidation(...) called by caller at time t; the recordId it returns is
\* the amount of the call recorded in last.
LogLiquidation(caller, r, t) ==
    LET err == LogLiquidationErr(caller, r)
        recordId == Len(liquidations)
    IN
    IF err # "none" THEN UNCHANGED <<vars, txvars, archive>>
    ELSE /\ liquidations' = Pushed(liquidations, LiquidationRecord(r, t))
         /\ totalCollateralSeized' = totalCollateralSeized + r.collateralSeized
         /\ totalLiquidationEvents' = totalLiquidationEvents + 1
         /\ liquidationCount' = [liquidationCount EXCEPT ![r.borrower] = @ + 1]
         /\ totalDebtRepaidUSD' = AddedDebtRepaidUSD(r)
         /\ totalDebtRepaidINR' = AddedDebtRepaidINR(r)
         /\ last' = Call("logLiquidation", caller, recordId, "-", r.borrower)
         /\ UNCHANGED <<state, txvars, roles>>

SetLoggerBotErr(caller, bot) ==
    IF ArchiveOnlyOwnerErr(caller) # "none" THEN ArchiveOnlyOwnerErr(caller)
    ELSE IF bot = ZeroAddr THEN "ZeroAddress"
    ELSE "none"

SetLoggerBot(caller, bot) ==
    IF SetLoggerBotErr(caller, bot) # "none" THEN UNCHANGED <<vars, txvars, archive>>
    ELSE /\ loggerBot' = bot
         /\ last' = Call("setLoggerBot", caller, 0, "-", bot)
         /\ UNCHANGED <<state, txvars, liquidations, aggregates, archiveOwner>>

ArchiveTransferOwnershipErr(caller, newOwner) ==
    IF ArchiveOnlyOwnerErr(caller) # "none" THEN ArchiveOnlyOwnerErr(caller)
    ELSE IF newOwner = ZeroAddr THEN "ZeroAddress"
    ELSE "none"

\* transferOwnership of the archive
ArchiveTransferOwnership(caller, newOwner) ==
    IF ArchiveTransferOwnershipErr(caller, newOwner) # "none" THEN UNCHANGED <<vars, txvars, archive>>
    ELSE /\ archiveOwner' = newOwner
         /\ last' = Call("archive.transferOwnership", caller, 0, "-", newOwner)
         /\ UNCHANGED <<state, txvars, liquidations, aggregates, loggerBot>>

\* getLiquidation(recordId)
GetLiquidation(recordId) ==
    IF recordId >= Len(liquidations) THEN "RecordNotFound"
    ELSE liquidations[recordId + 1]

GetTotalRecords == Len(liquidations)

NextArchive ==
    \/ \E a \in ArchiveCallers, r \in Submissions, t \in Timestamps :
           Len(liquidations) < MaxRecords /\ LogLiquidation(a, r, t)
    \/ \E a \in ArchiveCallers, b \in {"bot", "bob", ZeroAddr} : SetLoggerBot(a, b)
    \/ \E a \in ArchiveCallers, n \in {Deployer, "bob", ZeroAddr} : ArchiveTransferOwnership(a, n)

SpecArchive == Init /\ [][NextArchive]_<<vars, archive>>

\* --------------------------------------------------- the oracle, over time

\* The clock stops here.
MaxTime == 3

OracleCallers == {Deployer, "bob"}
NewOwners == {Deployer, "bob", ZeroAddr}
OracleRates == Prices \cup {0}
\* Maximum ages a reader asks for; 0 asks for no bound.
MaxAges == 0 .. MaxTime

\* Mutant: a rate as old as maxAge counted as stale.
GetLatestPriceMaxAgeStrict(cur, maxAge) ==
    IF maxAge > 0 /\ now - lastUpdatedAt[cur] >= maxAge
    THEN [err |-> "StalePrice", price |-> 0]
    ELSE [err |-> "none", price |-> prices[cur]]

\* getLatestPrice(currency, maxAge): the stored rate, or the revert StalePrice.
GetLatestPriceMaxAge(cur, maxAge) ==
    IF maxAge > 0 /\ now - lastUpdatedAt[cur] > maxAge
    THEN [err |-> "StalePrice", price |-> 0]
    ELSE [err |-> "none", price |-> prices[cur]]

\* PriceConsumer.transferOwnership; the zero address is refused with the
\* error the contract declares for rates.
OracleTransferOwnershipErr(caller, newOwner) ==
    IF caller # oracleOwner THEN "Unauthorized"
    ELSE IF newOwner = ZeroAddr THEN "InvalidPrice"
    ELSE "none"

OracleTransferOwnership(caller, newOwner) ==
    IF OracleTransferOwnershipErr(caller, newOwner) # "none" THEN Revert
    ELSE /\ oracleOwner' = newOwner
         /\ last' = Call("oracle.transferOwnership", caller, 0, "-", newOwner)
         /\ UNCHANGED <<positions, registry, ledgers, native, admin, prices,
                        lastUpdatedAt, now>>

\* A later block: block.timestamp grows.
Tick ==
    /\ now < MaxTime
    /\ now' = now + 1
    /\ UNCHANGED <<positions, registry, ledgers, native, admin, prices,
                   oracleOwner, lastUpdatedAt, last>>

NextOracle ==
    \/ WholeOracle /\ \E a \in OracleCallers, c \in Currencies, p \in OracleRates :
           UpdatePrice(a, c, p)
    \/ WholeOracle /\ \E a \in OracleCallers, u \in OracleRates, i \in OracleRates :
           UpdateBothPrices(a, u, i)
    \/ WholeOracle /\ \E a \in OracleCallers, n \in NewOwners :
           OracleTransferOwnership(a, n)
    \/ WholeOracle /\ Tick

SpecOracle == Init /\ [][NextOracle]_vars

\* -------------------------------------------------- LendingEngine, views

\* Mutant: a position without debt reported with health factor 0.
GetAccountStatusNoDebtZero(user) ==
    LET currency == IF hasCurrency[user] THEN userCurrency[user] ELSE USD
        price == GetLatestPrice(currency)
        collateralBNB == collateralAmount[user]
        collateralFiat == ToFiatValue(collateralBNB, price)
        debt == borrowedAmount[user]
        healthFactor == IF debt = 0 THEN 0 ELSE CalculateHealthFactor(user)
    IN  [collateralBNB |-> collateralBNB, collateralFiat |-> collateralFiat,
         debt |-> debt, healthFactor |-> healthFactor,
         isLiquidatable |-> healthFactor < PRECISION, currency |-> currency]

\* Mutant: the collateral valued at the USD rate whatever the currency.
GetAccountStatusUSDRate(user) ==
    LET currency == IF hasCurrency[user] THEN userCurrency[user] ELSE USD
        price == GetLatestPrice(USD)
        collateralBNB == collateralAmount[user]
        collateralFiat == ToFiatValue(collateralBNB, price)
        debt == borrowedAmount[user]
        healthFactor == IF debt = 0 THEN UINT_MAX ELSE CalculateHealthFactor(user)
    IN  [collateralBNB |-> collateralBNB, collateralFiat |-> collateralFiat,
         debt |-> debt, healthFactor |-> healthFactor,
         isLiquidatable |-> healthFactor < PRECISION, currency |-> currency]

\* The six values getAccountStatus returns.
GetAccountStatus(user) ==
    LET currency == IF hasCurrency[user] THEN userCurrency[user] ELSE USD
        price == GetLatestPrice(currency)
        collateralBNB == collateralAmount[user]
        collateralFiat == ToFiatValue(collateralBNB, price)
        debt == borrowedAmount[user]
        healthFactor == IF debt = 0 THEN UINT_MAX ELSE CalculateHealthFactor(user)
    IN  [collateralBNB |-> collateralBNB, collateralFiat |-> collateralFiat,
         debt |-> debt, healthFactor |-> healthFactor,
         isLiquidatable |-> healthFactor < PRECISION, currency |-> currency]

\* Mutant: the capacity measured against the liquidation threshold.
GetBorrowCapacityAtThreshold(user) ==
    IF ~hasCurrency[user] THEN 0
    ELSE LET price == GetLatestPrice(userCurrency[user])
             colFiat == ToFiatValue(collateralAmount[user], price)
             maxBorrow == (colFiat * LIQUIDATION_THRESHOLD) \div 100
             current == borrowedAmount[user]
         IN  IF maxBorrow > current THEN maxBorrow - current ELSE 0

GetBorrowCapacity(user) ==
    IF ~hasCurrency[user] THEN 0
    ELSE LET price == GetLatestPrice(userCurrency[user])
             colFiat == ToFiatValue(collateralAmount[user], price)
             maxBorrow == (colFiat * MAX_LTV) \div 100
             current == borrowedAmount[user]
         IN  IF maxBorrow > current THEN maxBorrow - current ELSE 0

GetBorrowers == borrowers

GetBorrowerCount == Len(borrowers)

\* The four are view functions: the call returns its value and writes
\* nothing, whoever calls and whatever the pause flag.
GetAccountStatusCall(user) ==
    /\ GetAccountStatus(user).debt = borrowedAmount[user]
    /\ UNCHANGED <<vars, txvars, archive>>

GetBorrowCapacityCall(user) ==
    /\ GetBorrowCapacity(user) >= 0
    /\ UNCHANGED <<vars, txvars, archive>>

GetBorrowersCall ==
    /\ Len(GetBorrowers) = GetBorrowerCount
    /\ UNCHANGED <<vars, txvars, archive>>

GetBorrowerCountCall ==
    /\ GetBorrowerCount >= 0
    /\ UNCHANGED <<vars, txvars, archive>>

\* The engine with its readers.
NextViews ==
    \/ Next
    \/ \E u \in Users : GetAccountStatusCall(u)
    \/ \E u \in Users : GetBorrowCapacityCall(u)
    \/ GetBorrowersCall
    \/ GetBorrowerCountCall

SpecViews == Init /\ [][NextViews]_vars

\* ================================================================ properties

\* The successful calls of the engine's user-facing operations.
EngineOps ==
    {"depositCollateral", "receive", "withdrawCollateral", "setCurrency",
     "borrow", "borrowIn", "repay", "liquidate"}

\* collateralFiatValue of a position, at the current rate of its currency.
CollateralFiatValue(a) ==
    ToFiatValue(collateralAmount[a], GetLatestPrice(userCurrency[a]))

\* The debt of all positions denominated in currency c.
DebtIn(c) ==
    SumOver([a \in Users |-> IF userCurrency[a] = c THEN borrowedAmount[a] ELSE 0], Users)

\* C1: for each currency, in every reachable state, the holders' balances in
\* its debt ledger add up to the ledger's totalSupply, and that equals the
\* sum of borrowedAmount over the accounts whose position is in that currency.
C1_SupplyMirrorsDebt ==
    \A c \in Currencies :
        /\ SumOver(balanceOf[c], Users) = totalSupply[c]
        /\ totalSupply[c] = DebtIn(c)

\* Two accounts owe debt in the same currency while debt units have moved
\* between holders.
C1_Witness ==
    /\ borrowedAmount["alice"] > 0
    /\ borrowedAmount["bob"] > 0
    /\ userCurrency["alice"] = userCurrency["bob"]
    /\ balanceOf[userCurrency["bob"]]["bob"] > borrowedAmount["bob"]

\* C2: liquidate(user) succeeds only if user's health factor at the current
\* rate is strictly below PRECISION; a call on a position whose health factor
\* is >= PRECISION never succeeds and, once past the pause gate, fails
\* PositionHealthy; after every successful liquidate(user) the user owes 0.
C2_LiquidateOnlyUnsafe ==
    /\ [](\A a \in Users, u \in Users, ok \in BOOLEAN :
            CalculateHealthFactor(u) >= PRECISION =>
                LiquidateErr(a, u, ok) =
                    IF paused THEN "ContractPaused" ELSE "PositionHealthy")
    /\ [][last'.op = "liquidate" =>
            /\ CalculateHealthFactor(last'.user) < PRECISION
            /\ borrowedAmount'[last'.user] = 0]_vars

\* A liquidation has just succeeded.
C2_Witness ==
    /\ last.op = "liquidate"
    /\ last.caller # last.user
    /\ borrowedAmount[last.user] = 0

\* C3: after any successful borrow, in either form, the caller's health
\* factor at the rate the borrow used is >= PRECISION.
C3_BorrowLeavesSafe ==
    last.op \in {"borrow", "borrowIn"} =>
        /\ borrowedAmount[last.caller] > 0
        /\ CalculateHealthFactor(last.caller) >= PRECISION

\* A borrow up to the ceiling has just succeeded.
C3_Witness ==
    /\ last.op \in {"borrow", "borrowIn"}
    /\ borrowedAmount[last.caller] = MaxBorrow(last.caller, userCurrency[last.caller])

\* C4: after any successful withdraw by an account that owes debt, the
\* account's health factor on the reduced collateral, at the current rate,
\* is >= PRECISION.
C4_WithdrawLeavesSafe ==
    (last.op = "withdrawCollateral" /\ borrowedAmount[last.caller] > 0) =>
        CalculateHealthFactor(last.caller) >= PRECISION

\* An account in debt has just withdrawn part of its collateral.
C4_Witness ==
    /\ last.op = "withdrawCollateral"
    /\ borrowedAmount[last.caller] > 0
    /\ last.amount > 0

\* The solvency inequality of the data model: collateralFiatValue * 80 >=
\* borrowed * 100.
Solvent(a) ==
    CollateralFiatValue(a) * LIQUIDATION_THRESHOLD >= borrowedAmount[a] * 100

\* C5, as stated: after any successful operation of the engine (all but an
\* external rate update), every account that owes debt satisfies the
\* solvency inequality at the current rate.
C5_SolventAfterEveryOperation ==
    last.op \in EngineOps =>
        \A a \in Users : borrowedAmount[a] > 0 => Solvent(a)

\* C5, amended: a successful operation of the engine never breaks the
\* solvency inequality: every account that owes debt after the operation, and
\* owed none or satisfied the inequality before it, satisfies it afterwards.
C5_OperationsKeepSolvent ==
    [][last'.op \in EngineOps =>
        \A a \in Users :
            (borrowedAmount'[a] > 0 /\ (borrowedAmount[a] = 0 \/ Solvent(a)))
                => Solvent(a)']_vars

\* An account in debt has just taken collateral out and is still solvent.
C5_Witness ==
    /\ last.op \in {"withdrawCollateral", "borrow"}
    /\ borrowedAmount[last.caller] > 0
    /\ Solvent(last.caller)
    /\ \E b \in Users : borrowedAmount[b] > 0 /\ ~Solvent(b)

\* C6: while an account owes debt no operation changes its currency:
\* setCurrency(c), for any c, and borrow(amount, c) with c other than the
\* position's currency never succeed and, once past the pause gate, fail
\* CurrencyLockedWhileInDebt; userCurrency[account] only changes in a state
\* where the account owes nothing.
C6_CurrencyLockedWhileInDebt ==
    /\ [](\A a \in Users :
            borrowedAmount[a] > 0 =>
                LET locked == IF paused THEN "ContractPaused"
                              ELSE "CurrencyLockedWhileInDebt"
                IN  /\ SetCurrencyErr(a) = locked
                    /\ \A v \in BorrowAmounts \ {0} :
                         \A c \in Currencies \ {userCurrency[a]} :
                            BorrowInErr(a, v, c) = locked)
    /\ [][\A a \in Users :
            userCurrency'[a] # userCurrency[a] => borrowedAmount[a] = 0]_vars

\* An account in debt, unpaused, with collateral to spare: the switch of
\* currency is the only thing that stops its borrow in the other currency.
C6_Witness ==
    /\ ~paused
    /\ borrowedAmount["alice"] > 0
    /\ userCurrency["alice"] = USD
    /\ borrowedAmount["alice"] + Part <= MaxBorrow("alice", INR)
    /\ BorrowInErr("alice", Part, INR) = "CurrencyLockedWhileInDebt"

\* C7: a successful repay(amount) lowers the caller's debt by exactly
\* min(amount, debt) and burns exactly that amount from the caller's balance
\* in the position's currency; the debt never goes below zero and the balance
\* never falls by more than the debt that was outstanding.
C7_RepayClamps ==
    /\ [](\A a \in Users : borrowedAmount[a] >= 0)
    /\ [][last'.op = "repay" =>
            LET a == last'.caller
                cur == userCurrency[a]
                paid == Min(last'.amount, borrowedAmount[a])
            IN  /\ borrowedAmount'[a] = borrowedAmount[a] - paid
                /\ balanceOf'[cur][a] = balanceOf[cur][a] - paid
                /\ totalSupply'[cur] = totalSupply[cur] - paid
                /\ balanceOf[cur][a] - balanceOf'[cur][a] <= borrowedAmount[a]]_vars

\* A partial repayment has just succeeded.
C7_Witness ==
    /\ last.op = "repay"
    /\ last.amount = Part
    /\ borrowedAmount[last.caller] > 0

\* C8, as stated: in every reachable state where the engine is not paused
\* and the caller owes debt, repay of more than the debt is not rejected.
C8_OverpaymentNeverRejected ==
    \A a \in Users :
        (~paused /\ borrowedAmount[a] > 0) =>
            RepayErr(a, borrowedAmount[a] + 1) = "none"

\* C8, amended: in every reachable state where the engine is not paused, the
\* caller owes debt and holds at least that many debt units of the
\* position's currency, repay of more than the debt is not rejected: it
\* succeeds, is capped at the debt and leaves the caller owing 0.  A caller
\* who holds fewer units than it owes is rejected with InsufficientBalance.
C8_OverpaymentCapped ==
    /\ [](\A a \in Users :
            (~paused /\ borrowedAmount[a] > 0) =>
                RepayErr(a, borrowedAmount[a] + 1) =
                    IF balanceOf[userCurrency[a]][a] >= borrowedAmount[a]
                    THEN "none" ELSE "InsufficientBalance")
    /\ [][(last'.op = "repay" /\ last'.amount > borrowedAmount[last'.caller]) =>
            borrowedAmount'[last'.caller] = 0]_vars

\* An overpayment has just cleared a debt.
C8_Witness ==
    /\ last.op = "repay"
    /\ last.amount > Part
    /\ borrowedAmount[last.caller] = 0

\* C9: a successful liquidate(user), of debt d at rate p, seizes
\* min(debtInCollateral + floor(debtInCollateral * 5 / 100), collateral[user])
\* with debtInCollateral = floor(d * PRICE_DECIMALS / p): the user's
\* collateral falls by exactly that and not below zero, the caller is paid
\* exactly that, and exactly d debt units of the position's currency are
\* burned from the caller.
C9_LiquidationSeizure ==
    [][last'.op = "liquidate" =>
        LET user == last'.user
            caller == last'.caller
            cur == userCurrency[user]
            d == borrowedAmount[user]
            debtInCollateral == (d * PRICE_DECIMALS) \div prices[cur]
            seized == Min(debtInCollateral + (debtInCollateral * 5) \div 100,
                          collateralAmount[user])
        IN  /\ last'.seized = seized
            /\ last'.debt = d
            /\ collateralAmount'[user] = collateralAmount[user] - seized
            /\ collateralAmount'[user] >= 0
            /\ wallet'[caller] = wallet[caller] + seized
            /\ engineBalance' = engineBalance - seized
            /\ balanceOf'[cur][caller] = balanceOf[cur][caller] - d
            /\ totalSupply'[cur] = totalSupply[cur] - d]_vars

\* A liquidation below the cap has just paid debt plus a nonzero bonus and
\* left the user some collateral.
C9_Witness ==
    /\ last.op = "liquidate"
    /\ last.bonus > 0
    /\ collateralAmount[last.user] > 0
    /\ wallet[last.caller] >= last.seized

\* A liquidation has just been capped at the user's whole collateral.
C9_WitnessCapped ==
    /\ last.op = "liquidate"
    /\ collateralAmount[last.user] = 0
    /\ last.seized < DebtInBNB(last.debt, prices[last.cur])

\* C10: while the pause flag is set no user-facing mutating path of the
\* engine goes through, a plain value transfer to the engine included, and
\* positions, registry and ledgers stay as they are under those calls; only
\* the owner sets or clears the flag.
C10_PauseGatesEveryPath ==
    /\ [][paused => last'.op \notin EngineOps]_vars
    /\ [][paused' # paused => (last'.op = "setPaused" /\ last'.caller = owner)]_vars

\* C11: every engine operation that fails leaves the observable state
\* (collateral, borrowed, currency and its flag, registry, debt balances and
\* supply, engine-held collateral) as it was before the call: when a call has
\* reverted, at whatever position and after whatever writes, the storage is
\* the storage of the call's entry.
C11_FailedCallLeavesNoTrace ==
    pc = "reverted" => Storage = snapshot

\* A liquidation whose payout the liquidator rejected, after the debt was
\* cleared, the collateral seized and the liquidator's units burned.
C11_Witness ==
    /\ pc = "reverted"
    /\ frame.op = "liquidate"
    /\ frame.err = "CollateralTransferFailed"
    /\ frame.dirty
    /\ borrowedAmount[frame.user] > 0
    /\ balanceOf[userCurrency[frame.user]][frame.caller] >= borrowedAmount[frame.user]

\* A two-argument borrow above the ceiling, after the currency was written.
C11_WitnessTentativeCurrency ==
    /\ pc = "reverted"
    /\ frame.op = "borrowIn"
    /\ frame.err = "BorrowLimitExceeded"
    /\ frame.dirty
    /\ userCurrency[frame.caller] # frame.cur

\* A withdrawal whose payout the caller rejected, after the debit.
C11_WitnessWithdrawRejected ==
    /\ pc = "reverted"
    /\ frame.op = "withdrawCollateral"
    /\ frame.err = "CollateralTransferFailed"
    /\ frame.dirty

\* The writes a failing call makes before it fails are real: the currency a
\* two-argument borrow wrote is in storage while the ceiling is checked.
C11_WitnessMidCall ==
    /\ pc = "executeBorrow"
    /\ frame.op = "borrowIn"
    /\ userCurrency[frame.caller] # snapshot.userCurrency[frame.caller]
    /\ borrowedAmount[frame.caller] + frame.amount > MaxBorrow(frame.caller, frame.cur)

\* The positive amounts a caller may ask for.
PositiveAmounts == 1 .. (BorrowLot + 1)

\* What a borrow answers when the ceiling alone decides.
CeilingAnswer(a, amount, currency) ==
    IF borrowedAmount[a] + amount <= MaxBorrow(a, currency)
    THEN "none" ELSE "BorrowLimitExceeded"

\* The step is a successful borrow of last'.amount by last'.caller in c: the
\* debt grows by exactly the amount and exactly that many units of c, and of
\* no other ledger, are minted to the caller.
BorrowEffect(c) ==
    LET a == last'.caller
        v == last'.amount
    IN
    /\ borrowedAmount' = [borrowedAmount EXCEPT ![a] = @ + v]
    /\ balanceOf' = [balanceOf EXCEPT ![c][a] = @ + v]
    /\ totalSupply' = [totalSupply EXCEPT ![c] = @ + v]
    /\ userCurrency'[a] = c
    /\ borrowedAmount[a] + v <= MaxBorrow(a, c)

BorrowEffects ==
    /\ last'.op = "borrow" => BorrowEffect(userCurrency[last'.caller])
    /\ last'.op = "borrowIn" => BorrowEffect(last'.cur)

\* C12 as stated: with collateral > 0 and amount > 0 a borrow, in either
\* form, succeeds iff borrowed + amount <= maxBorrow and fails
\* BorrowLimitExceeded otherwise; a successful borrow adds exactly amount to
\* borrowed and mints exactly amount units of its currency to the caller.
C12_BorrowIffWithinCeiling ==
    /\ [](\A a \in Users, v \in PositiveAmounts, c \in Currencies :
            collateralAmount[a] > 0 =>
                /\ BorrowErr(a, v) = CeilingAnswer(a, v, userCurrency[a])
                /\ BorrowInErr(a, v, c) = CeilingAnswer(a, v, c))
    /\ [][BorrowEffects]_vars

\* C12, amended: the ceiling alone decides when the engine is not paused and,
\* for borrow(amount), the caller has a currency set, for
\* borrow(amount, currency), the caller has no debt in the other currency.
C12_BorrowWithinCeiling ==
    /\ [](\A a \in Users, v \in PositiveAmounts, c \in Currencies :
            (collateralAmount[a] > 0 /\ ~paused) =>
                /\ hasCurrency[a] =>
                       BorrowErr(a, v) = CeilingAnswer(a, v, userCurrency[a])
                /\ (borrowedAmount[a] = 0 \/ userCurrency[a] = c) =>
                       BorrowInErr(a, v, c) = CeilingAnswer(a, v, c))
    /\ [][BorrowEffects]_vars

\* A borrow that landed exactly on the ceiling: every further positive
\* amount is refused.
C12_Witness ==
    /\ last.op \in {"borrow", "borrowIn"}
    /\ ~paused
    /\ borrowedAmount[last.caller] = MaxBorrow(last.caller, userCurrency[last.caller])
    /\ borrowedAmount[last.caller] > 0
    /\ BorrowErr(last.caller, 1) = "BorrowLimitExceeded"

\* C13: mint and burn succeed only for the registered minter; every other
\* caller, and every caller while no minter is registered, fails Unauthorized;
\* burn of more than balance[from] fails InsufficientBalance; balances and
\* supply change in no failing call, and the supply changes only in a mint or
\* burn sent by the minter.
C13_OnlyMinterMintsAndBurns ==
    /\ [](\A c \in Currencies, a \in LedgerCallers, u \in Users, v \in LedgerAmounts \cup {MaxSupply + 1} :
            /\ (a # minter[c] \/ minter[c] = ZeroAddr) =>
                   /\ MintErr(c, a, u) = "Unauthorized"
                   /\ BurnErr(c, a, u, v) = "Unauthorized"
            /\ (a = minter[c] /\ balanceOf[c][u] < v) =>
                   BurnErr(c, a, u, v) = "InsufficientBalance"
            /\ (MintErr(c, a, u) = "none" \/ BurnErr(c, a, u, v) = "none") =>
                   a = minter[c])
    /\ [][totalSupply' # totalSupply =>
            /\ last'.op \in {"mint", "burn"}
            /\ last'.caller = minter[last'.cur]
            /\ minter[last'.cur] # ZeroAddr]_vars
    /\ [][(last'.op \in {"mint", "burn"} /\ last'.caller # minter[last'.cur]) =>
            UNCHANGED <<balanceOf, totalSupply>>]_vars

\* The registered minter has minted; an outsider's mint and burn are refused,
\* and so is the minter's burn of more than the holder has.
C13_Witness ==
    /\ last.op = "mint"
    /\ last.caller = minter[last.cur]
    /\ balanceOf[last.cur][last.user] = last.amount
    /\ MintErr(last.cur, "alice", "alice") = "Unauthorized"
    /\ BurnErr(last.cur, "alice", last.user, last.amount) = "Unauthorized"
    /\ BurnErr(last.cur, last.caller, last.user, last.amount + 1) = "InsufficientBalance"

\* C14: the minter of a ledger is set at most once and only by the deploying
\* owner: once set it never changes; a second setMinter by the owner fails
\* MinterAlreadySet and a setMinter by anyone else fails Unauthorized.
C14_MinterSetOnce ==
    /\ [](\A c \in Currencies, a \in LedgerCallers, m \in Minters :
            /\ a # Deployer => SetMinterErr(c, a, m) = "Unauthorized"
            /\ minter[c] # ZeroAddr => SetMinterErr(c, Deployer, m) = "MinterAlreadySet")
    /\ [][\A c \in Currencies : minter[c] # ZeroAddr => minter'[c] = minter[c]]_vars
    /\ [][minter' # minter => (last'.op = "setMinter" /\ last'.caller = Deployer)]_vars

\* One ledger has its minter set, by the owner, and the ledger has been used
\* since.
C14_Witness ==
    \E c \in Currencies :
        /\ minter[c] = "bob"
        /\ totalSupply[c] > 0
        /\ SetMinterErr(c, Deployer, Engine) = "MinterAlreadySet"
        /\ SetMinterErr(c, "bob", Engine) = "Unauthorized"

\* The aggregates recomputed from the record sequence.
RECURSIVE SumSeq(_)
SumSeq(q) == IF q = <<>> THEN 0 ELSE Head(q) + SumSeq(Tail(q))

SeizedColumn == [i \in DOMAIN liquidations |-> liquidations[i].collateralSeized]

DebtColumn(currency) ==
    [i \in DOMAIN liquidations |->
        IF liquidations[i].currency = currency THEN liquidations[i].debtRepaid ELSE 0]

RecordsOf(b) == {i \in DOMAIN liquidations : liquidations[i].borrower = b}

\* C15: in every reachable state of the archive the aggregates equal the
\* values recomputed from the records: the number of records, the sum of
\* collateralSeized, the sums of debtRepaid over the records of currency 0
\* and of currency 1, and per borrower the number of its records.
C15_AggregatesMatchRecords ==
    /\ totalLiquidationEvents = Len(liquidations)
    /\ totalCollateralSeized = SumSeq(SeizedColumn)
    /\ totalDebtRepaidUSD = SumSeq(DebtColumn(0))
    /\ totalDebtRepaidINR = SumSeq(DebtColumn(1))
    /\ \A b \in Users : liquidationCount[b] = Cardinality(RecordsOf(b))

\* Records of both currencies and of both borrowers are in the archive.
C15_Witness ==
    /\ Len(liquidations) = MaxRecords
    /\ totalDebtRepaidUSD > 0
    /\ totalDebtRepaidINR > totalDebtRepaidUSD
    /\ \A b \in Users : liquidationCount[b] > 0

\* The ids of the records in the archive.
RecordIds == 0 .. (Len(liquidations) - 1)

\* C16: the archive is append-only: a successful logLiquidation appends
\* exactly one record, whose id is the record count before the call; the
\* record getLiquidation(id) returns for an existing id is the same after
\* every operation of the archive; the record count never decreases.
C16_AppendOnly ==
    /\ [][\A id \in RecordIds : GetLiquidation(id)' = GetLiquidation(id)]_<<vars, archive>>
    /\ [][GetTotalRecords' >= GetTotalRecords]_<<vars, archive>>
    /\ [][liquidations' # liquidations =>
            /\ last'.op = "logLiquidation"
            /\ last'.amount = GetTotalRecords
            /\ GetTotalRecords' = GetTotalRecords + 1
            /\ SubSeq(liquidations', 1, Len(liquidations)) = liquidations
            /\ liquidations'[Len(liquidations) + 1].borrower = last'.user]_<<vars, archive>>
    /\ [][(last'.op = "logLiquidation" /\ last' # last) =>
            GetTotalRecords' = GetTotalRecords + 1]_<<vars, archive>>

\* Two records are in the archive, the second differing from the first, and
\* the relayer and the owner have changed since.
C16_Witness ==
    /\ Len(liquidations) >= 2
    /\ GetLiquidation(0) # GetLiquidation(1)
    /\ loggerBot = "bob"
    /\ archiveOwner = "bob"

\* C17: logLiquidation succeeds only for the archive's current owner or its
\* current relayer; any other caller fails Unauthorized with records and
\* aggregates unchanged; only the owner changes the relayer or the owner.
C17_OnlyAuthorisedLogs ==
    /\ [](\A a \in ArchiveCallers, r \in Submissions :
            /\ (a # archiveOwner /\ a # loggerBot) => LogLiquidationErr(a, r) = "Unauthorized"
            /\ a # archiveOwner =>
                   /\ SetLoggerBotErr(a, r.liquidator) = "Unauthorized"
                   /\ ArchiveTransferOwnershipErr(a, r.liquidator) = "Unauthorized")
    /\ [][<<liquidations, aggregates>>' # <<liquidations, aggregates>> =>
            /\ last'.op = "logLiquidation"
            /\ last'.caller \in {archiveOwner, loggerBot}]_<<vars, archive>>
    /\ [][roles' # roles =>
            /\ last'.op \in {"setLoggerBot", "archive.transferOwnership"}
            /\ last'.caller = archiveOwner]_<<vars, archive>>

\* The registered relayer, who is not the owner, has logged a record; an
\* outsider is refused.
C17_Witness ==
    /\ last.op = "logLiquidation"
    /\ last.caller = loggerBot
    /\ last.caller # archiveOwner
    /\ \E a \in ArchiveCallers : a \notin {archiveOwner, loggerBot}

\* C18: logLiquidation by an authorised caller fails InvalidRecord on a zero
\* borrower, a zero liquidator or a zero debtRepaid, and InvalidCurrency on a
\* currency tag above 1 in a record without those defects (the zero checks
\* come first); no failing call appends a record or changes an aggregate:
\* records and aggregates change only by the append of a record that has none
\* of the defects.
C18_InvalidSubmissionsRejected ==
    /\ [](\A a \in ArchiveCallers, r \in Submissions :
            OnlyAuthorisedErr(a) = "none" =>
                /\ (r.borrower = ZeroAddr \/ r.liquidator = ZeroAddr \/ r.debtRepaid = 0) =>
                       LogLiquidationErr(a, r) = "InvalidRecord"
                /\ (r.currency > 1 /\ r.borrower # ZeroAddr /\ r.liquidator # ZeroAddr
                        /\ r.debtRepaid # 0) =>
                       LogLiquidationErr(a, r) = "InvalidCurrency")
    /\ [](\A i \in DOMAIN liquidations :
            /\ liquidations[i].borrower # ZeroAddr
            /\ liquidations[i].liquidator # ZeroAddr
            /\ liquidations[i].debtRepaid > 0
            /\ liquidations[i].currency <= 1)
    /\ [][<<liquidations, aggregates>>' # <<liquidations, aggregates>> =>
            /\ Len(liquidations') = Len(liquidations) + 1
            /\ liquidations'[Len(liquidations')].borrower # ZeroAddr
            /\ liquidations'[Len(liquidations')].liquidator # ZeroAddr
            /\ liquidations'[Len(liquidations')].debtRepaid > 0
            /\ liquidations'[Len(liquidations')].currency <= 1]_<<vars, archive>>

\* Records are in the archive and the relayer is registered: its next
\* submission with currency tag 2 is refused.
C18_Witness ==
    /\ Len(liquidations) > 0
    /\ Len(liquidations) < MaxRecords
    /\ loggerBot = "bot"
    /\ \E r \in Submissions :
           r.currency = 2 /\ LogLiquidationErr("bot", r) = "InvalidCurrency"

\* C19: appends are idempotent in the origin transaction: no two records of
\* the archive carry the same bscTxHash, and records and aggregates change
\* only by the append of a record whose bscTxHash is not yet recorded.
C19_AppendsIdempotent ==
    /\ [](\A i, j \in DOMAIN liquidations :
            liquidations[i].bscTxHash = liquidations[j].bscTxHash => i = j)
    /\ [][<<liquidations, aggregates>>' # <<liquidations, aggregates>> =>
            \A i \in DOMAIN liquidations :
                liquidations[i].bscTxHash # liquidations'[Len(liquidations')].bscTxHash]_<<vars, archive>>

\* The account whose debt the latest call cleared, if it cleared one: the
\* target of a liquidation, or the caller of a repay that left no debt.
JustCleared(u) ==
    \/ last.op = "liquidate" /\ last.user = u
    \/ last.op = "repay" /\ last.caller = u /\ borrowedAmount[u] = 0

\* C20: liquidate(account) on an account whose debt is already cleared
\* (borrowed = 0) fails NoBorrowedDebt, whoever calls it and whether or not
\* the caller would accept the payout.  (That a failing call changes no state
\* is C11.)
C20_LiquidateClearedFailsNoBorrowedDebt ==
    \A a \in Users, u \in Users, ok \in BOOLEAN :
        (~paused /\ JustCleared(u) /\ borrowedAmount[u] = 0) =>
            LiquidateErr(a, u, ok) = "NoBorrowedDebt"

\* The other currency.
Other(c) == IF c = USD THEN INR ELSE USD

\* C21: liquidate on an unsafe position by a caller holding fewer units of
\* the position's currency than the position's full debt fails
\* InsufficientDebtBalance, whatever the caller holds in the other currency;
\* a liquidation that succeeds clears the whole debt, never a part of it.
\* (That a failing call changes no state is C11.)
C21_LiquidatorNeedsFullDebt ==
    /\ [](\A a \in Users, u \in Users, ok \in BOOLEAN :
            (/\ ~paused
             /\ CalculateHealthFactor(u) < PRECISION
             /\ balanceOf[userCurrency[u]][a] < borrowedAmount[u]) =>
                LiquidateErr(a, u, ok) = "InsufficientDebtBalance")
    /\ [][last'.op = "liquidate" =>
            /\ balanceOf[last'.cur][last'.caller] >= borrowedAmount[last'.user]
            /\ last'.cur = userCurrency[last'.user]
            /\ borrowedAmount'[last'.user] = 0
            /\ balanceOf'[Other(last'.cur)] = balanceOf[Other(last'.cur)]]_vars

\* An unsafe position and a caller who holds enough units of the other
\* currency to cover its debt, and too few of the position's currency.
C21_Witness ==
    \E a \in Users, u \in Users :
        /\ ~paused
        /\ borrowedAmount[u] > 0
        /\ CalculateHealthFactor(u) < PRECISION
        /\ balanceOf[Other(userCurrency[u])][a] >= borrowedAmount[u]
        /\ balanceOf[userCurrency[u]][a] < borrowedAmount[u]

\* An unsafe position and a caller who holds units of its currency, fewer
\* than its debt.
C21_WitnessPartial ==
    \E a \in Users, u \in Users :
        /\ ~paused
        /\ CalculateHealthFactor(u) < PRECISION
        /\ balanceOf[userCurrency[u]][a] < borrowedAmount[u]
        /\ balanceOf[userCurrency[u]][a] > 0

\* C22: withdraw of more than the caller's collateral fails
\* InsufficientCollateral; with borrowed > 0 and a health factor below
\* PRECISION on the debited position it fails WithdrawWouldLiquidate; after
\* either failure the collateral is its prior value, nothing was paid out and
\* nothing else changed.
C22_WithdrawRefusals ==
    /\ []((pc = "entry" /\ frame.op = "withdrawCollateral" /\ ~paused
              /\ frame.amount > collateralAmount[frame.caller]) =>
            WithdrawEntryErr(frame.caller, frame.amount) = "InsufficientCollateral")
    /\ [][(pc = "health" /\ borrowedAmount[frame.caller] > 0
              /\ CalculateHealthFactor(frame.caller) < PRECISION) =>
            (pc' = "reverted" /\ frame'.err = "WithdrawWouldLiquidate")]_<<vars, txvars>>
    /\ []((pc = "reverted" /\ frame.op = "withdrawCollateral"
              /\ frame.err \in {"InsufficientCollateral", "WithdrawWouldLiquidate"}) =>
            /\ collateralAmount = snapshot.collateralAmount
            /\ wallet = snapshot.wallet
            /\ engineBalance = snapshot.engineBalance
            /\ Storage = snapshot)
    /\ []((pc \in {"health", "payout"} /\ frame.op = "withdrawCollateral") =>
            collateralAmount[frame.caller] >= 0)

\* A withdrawal refused for the health of the position, after its debit.
C22_Witness ==
    /\ pc = "reverted"
    /\ frame.op = "withdrawCollateral"
    /\ frame.err = "WithdrawWouldLiquidate"
    /\ frame.dirty
    /\ borrowedAmount[frame.caller] > 0
    /\ collateralAmount[frame.caller] > 0

\* A withdrawal refused for its amount.
C22_WitnessInsufficient ==
    /\ pc = "reverted"
    /\ frame.op = "withdrawCollateral"
    /\ frame.err = "InsufficientCollateral"
    /\ collateralAmount[frame.caller] > 0

\* C23: while the engine is not paused, an account with borrowed = 0 switches
\* its currency freely: setCurrency succeeds for either currency, and
\* borrow(amount, c2) within the ceiling succeeds whatever currency was set
\* before, sets the position's currency to c2 and mints units of c2; this
\* holds again once a full repay or a liquidation has brought borrowed back
\* to 0.
C23_CurrencyFreeWithoutDebt ==
    /\ [](\A a \in Users, c \in Currencies, v \in PositiveAmounts :
            (~paused /\ borrowedAmount[a] = 0) =>
                /\ SetCurrencyErr(a) = "none"
                /\ (collateralAmount[a] > 0 /\ v <= MaxBorrow(a, c)) =>
                       BorrowInErr(a, v, c) = "none")
    /\ [][last'.op = "setCurrency" =>
            /\ borrowedAmount[last'.caller] = 0
            /\ userCurrency'[last'.caller] = last'.cur
            /\ hasCurrency'[last'.caller]]_vars
    /\ [][last'.op = "borrowIn" =>
            /\ userCurrency'[last'.caller] = last'.cur
            /\ hasCurrency'[last'.caller]
            /\ balanceOf'[last'.cur][last'.caller] =
                   balanceOf[last'.cur][last'.caller] + last'.amount
            /\ balanceOf'[Other(last'.cur)] = balanceOf[Other(last'.cur)]]_vars

\* A full repay has just cleared a debt in INR: the account may set USD, and
\* borrow in USD.
C23_Witness ==
    /\ last.op = "repay"
    /\ ~paused
    /\ borrowedAmount[last.caller] = 0
    /\ hasCurrency[last.caller]
    /\ userCurrency[last.caller] = INR
    /\ SetCurrencyErr(last.caller) = "none"
    /\ BorrowInErr(last.caller, Part, USD) = "none"

\* C24: while the engine is not paused, a borrow of a positive amount with
\* zero collateral fails InsufficientCollateral in both forms, and
\* borrow(amount) by an account with collateral that never chose a currency
\* fails NoCurrencySet; the currency flag is set by setCurrency and by a
\* successful two-argument borrow only, and no debt is ever recorded for an
\* account without collateral or without a currency.
C24_BorrowRefusals ==
    /\ [](\A a \in Users, c \in Currencies, v \in PositiveAmounts :
            ~paused =>
                /\ collateralAmount[a] = 0 =>
                       /\ BorrowErr(a, v) = "InsufficientCollateral"
                       /\ BorrowInErr(a, v, c) = "InsufficientCollateral"
                /\ (collateralAmount[a] > 0 /\ ~hasCurrency[a]) =>
                       BorrowErr(a, v) = "NoCurrencySet")
    /\ [][hasCurrency' # hasCurrency => last'.op \in {"setCurrency", "borrowIn"}]_vars
    /\ [][last'.op = "borrow" => hasCurrency[last'.caller] /\ collateralAmount[last'.caller] > 0]_vars
    /\ [](\A a \in Users : borrowedAmount[a] > 0 =>
            (hasCurrency[a] /\ collateralAmount[a] > 0))

\* One account has collateral and never chose a currency, the other has no
\* collateral.
C24_Witness ==
    /\ ~paused
    /\ last.op \in {"depositCollateral", "receive"}
    /\ ~hasCurrency[last.caller]
    /\ BorrowErr(last.caller, Part) = "NoCurrencySet"
    /\ \E u \in Users :
           /\ collateralAmount[u] = 0
           /\ BorrowErr(u, Part) = "InsufficientCollateral"
           /\ BorrowInErr(u, Part, INR) = "InsufficientCollateral"

\* C25: only the oracle's current owner changes a rate.  updatePrice and
\* updateBothPrices by any other caller fail Unauthorized, and by the owner
\* with a zero rate fail InvalidPrice; a failing update leaves every rate and
\* timestamp as it was; a rate or timestamp changes only in an update by the
\* owner; every stored rate is strictly positive in every reachable state.
C25_OnlyOwnerSetsRates ==
    /\ [](\A a \in OracleCallers, p \in OracleRates, q \in OracleRates :
            /\ a # oracleOwner =>
                   /\ UpdatePriceErr(a, p) = "Unauthorized"
                   /\ UpdateBothPricesErr(a, p, q) = "Unauthorized"
            /\ (a = oracleOwner /\ p = 0) => UpdatePriceErr(a, p) = "InvalidPrice"
            /\ (a = oracleOwner /\ (p = 0 \/ q = 0)) =>
                   UpdateBothPricesErr(a, p, q) = "InvalidPrice")
    /\ [](\A c \in Currencies : prices[c] > 0)
    /\ [][(prices' # prices \/ lastUpdatedAt' # lastUpdatedAt) =>
              /\ last'.op \in {"updatePrice", "updateBothPrices"}
              /\ last'.caller = oracleOwner]_vars
    /\ [][\A a \in OracleCallers, p \in OracleRates, q \in OracleRates :
              /\ \A c \in Currencies :
                     (UpdatePriceErr(a, p) # "none" /\ UpdatePrice(a, c, p)) =>
                         UNCHANGED <<prices, lastUpdatedAt>>
              /\ (UpdateBothPricesErr(a, p, q) # "none" /\ UpdateBothPrices(a, p, q)) =>
                     UNCHANGED <<prices, lastUpdatedAt>>]_vars

\* The oracle has changed hands, the former owner is refused and the new
\* owner has posted a rate at a later time.
C25_Witness ==
    /\ oracleOwner = "bob"
    /\ UpdatePriceErr(Deployer, PRICE_DECIMALS) = "Unauthorized"
    /\ last.op = "updatePrice"
    /\ last.caller = "bob"
    /\ lastUpdatedAt[last.cur] > 0
    /\ prices[last.cur] # PRICE_DECIMALS

\* C26: updateBothPrices moves both snapshots in one step.  With either new
\* rate zero the call fails and no rate or timestamp changes; on success both
\* rates hold the new values and both timestamps equal the current time, so
\* the two snapshots an engine operation reads after an updateBothPrices are
\* of the same update.
C26_BothRatesMoveTogether ==
    /\ [](\A a \in OracleCallers, u \in OracleRates, i \in OracleRates :
            (u = 0 \/ i = 0) => UpdateBothPricesErr(a, u, i) # "none")
    /\ [][\A a \in OracleCallers, u \in OracleRates, i \in OracleRates :
              UpdateBothPrices(a, u, i) =>
                  IF UpdateBothPricesErr(a, u, i) = "none"
                  THEN /\ prices' = [c \in Currencies |-> IF c = USD THEN u ELSE i]
                       /\ lastUpdatedAt' = [c \in Currencies |-> now]
                  ELSE UNCHANGED <<prices, lastUpdatedAt>>]_vars
    /\ [][(last'.op = "updateBothPrices" /\ <<prices, lastUpdatedAt>>' # <<prices, lastUpdatedAt>>) =>
              /\ lastUpdatedAt'[USD] = lastUpdatedAt'[INR]
              /\ prices'[USD] > 0
              /\ prices'[INR] > 0]_vars

\* Both rates were replaced, by different values, at a time later than the
\* deployment.
C26_Witness ==
    /\ last.op = "updateBothPrices"
    /\ lastUpdatedAt[USD] = now
    /\ lastUpdatedAt[INR] = now
    /\ now > 0
    /\ prices[USD] # prices[INR]
    /\ prices[USD] # PRICE_DECIMALS
    /\ prices[INR] # PRICE_DECIMALS

\* C27: updatePrice(c, r) by the owner with r > 0 succeeds, sets the rate of
\* c to r and its timestamp to the current time, and leaves the rate and the
\* timestamp of the other currency as they were.
C27_UpdatePriceTouchesOneCurrency ==
    /\ [](\A p \in Prices : UpdatePriceErr(oracleOwner, p) = "none")
    /\ [][\A a \in OracleCallers, c \in Currencies, p \in Prices :
              (a = oracleOwner /\ UpdatePrice(a, c, p)) =>
                  /\ prices'[c] = p
                  /\ lastUpdatedAt'[c] = now
                  /\ prices'[Other(c)] = prices[Other(c)]
                  /\ lastUpdatedAt'[Other(c)] = lastUpdatedAt[Other(c)]]_vars

\* One currency was updated at a later time; the other still carries the
\* rate and the timestamp of the deployment.
C27_Witness ==
    /\ last.op = "updatePrice"
    /\ lastUpdatedAt[last.cur] = now
    /\ now > 0
    /\ prices[last.cur] # PRICE_DECIMALS
    /\ lastUpdatedAt[Other(last.cur)] = 0
    /\ prices[Other(last.cur)] = PRICE_DECIMALS

\* C30: getLatestPrice(currency, maxAge) fails StalePrice exactly when
\* maxAge > 0 and now - lastUpdatedAt[currency] > maxAge; otherwise it
\* returns the stored rate, the value of the unbounded getLatestPrice.  No
\* timestamp is later than the current time, so the age is never negative.
C30_StaleExactly ==
    \A c \in Currencies, m \in MaxAges :
        /\ lastUpdatedAt[c] <= now
        /\ (GetLatestPriceMaxAge(c, m).err = "StalePrice") <=>
               (m > 0 /\ now - lastUpdatedAt[c] > m)
        /\ GetLatestPriceMaxAge(c, m).err # "StalePrice" =>
               /\ GetLatestPriceMaxAge(c, m).err = "none"
               /\ GetLatestPriceMaxAge(c, m).price = GetLatestPrice(c)

\* A rate two ticks old: stale for a reader bounding the age by one, served to
\* a reader bounding it by two and to one asking for no bound, while the
\* other currency is fresh.
C30_Witness ==
    \E c \in Currencies :
        /\ now - lastUpdatedAt[c] = 2
        /\ GetLatestPriceMaxAge(c, 1).err = "StalePrice"
        /\ GetLatestPriceMaxAge(c, 2).price = prices[c]
        /\ GetLatestPriceMaxAge(c, 0).price = prices[c]
        /\ lastUpdatedAt[Other(c)] = now
        /\ GetLatestPriceMaxAge(Other(c), 1).err = "none"

\* C28: the health factor getAccountStatus(user) reports is
\* floor(floor(collateral * rate / PRICE_DECIMALS) * 80 * PRECISION /
\* (borrowed * 100)) at the rate of the user's currency when borrowed > 0 and
\* the maximum value when borrowed = 0; isLiquidatable holds exactly when the
\* reported value is below PRECISION, so never for a position without debt.
C28_ReportedHealthFactor ==
    \A u \in Users :
        LET status == GetAccountStatus(u)
            rate == prices[userCurrency[u]]
        IN  /\ borrowedAmount[u] > 0 =>
                   status.healthFactor =
                       (((collateralAmount[u] * rate) \div PRICE_DECIMALS) * 80 * PRECISION)
                           \div (borrowedAmount[u] * 100)
            /\ borrowedAmount[u] = 0 =>
                   /\ status.healthFactor = UINT_MAX
                   /\ ~status.isLiquidatable
            /\ status.isLiquidatable <=> (status.healthFactor < PRECISION)
            /\ status.healthFactor <= UINT_MAX

\* An INR position reported unsafe, with a health factor above zero, at an
\* INR rate that differs from the USD rate, next to an account without debt.
C28_Witness ==
    \E u \in Users, v \in Users :
        /\ borrowedAmount[u] > 0
        /\ userCurrency[u] = INR
        /\ prices[INR] # prices[USD]
        /\ GetAccountStatus(u).isLiquidatable
        /\ GetAccountStatus(u).healthFactor > 0
        /\ borrowedAmount[v] = 0
        /\ GetAccountStatus(v).healthFactor = UINT_MAX

\* The position getAccountStatus(user) reads.
Position(u) == <<collateralAmount[u], borrowedAmount[u], userCurrency[u], hasCurrency[u]>>

\* A call of one of the four readers.
ViewCalled ==
    \/ \E u \in Users : GetAccountStatusCall(u) \/ GetBorrowCapacityCall(u)
    \/ GetBorrowersCall
    \/ GetBorrowerCountCall

\* C29: getAccountStatus, getBorrowCapacity, getBorrowers and
\* getBorrowerCount change no state variable, and getAccountStatus(user)
\* depends only on the user's position and the rate of the user's currency:
\* a step that changes the state is no call of a reader, and it leaves
\* getAccountStatus(user) as it was unless it changes the user's position or
\* the rate of the user's currency, whatever it does to other accounts or to
\* the other currency's rate; a step that changes no state changes no answer.
C29_ViewsReadOnly ==
    [][\/ UNCHANGED state
       \/ /\ ~ViewCalled
          /\ \A u \in Users :
                 (/\ Position(u)' = Position(u)
                  /\ prices'[GetAccountStatus(u).currency] =
                         prices[GetAccountStatus(u).currency]) =>
                     GetAccountStatus(u)' = GetAccountStatus(u)]_vars

\* The rate of the other currency was just changed under a position in debt,
\* while another account holds a position of its own.
C29_Witness ==
    \E u \in Users, v \in Users :
        /\ borrowedAmount[u] > 0
        /\ last.op = "updatePrice"
        /\ last.cur = Other(userCurrency[u])
        /\ prices[last.cur] # PRICE_DECIMALS
        /\ GetAccountStatus(u).healthFactor < UINT_MAX
        /\ v # u
        /\ collateralAmount[v] > 0

\* C33: only a rate update turns a safe position unsafe.  Over every step
\* that leaves the rate of an account's currency as it was (a call of the
\* engine or of a debt ledger by any caller, on any account, or an update of
\* the other currency's rate) an account whose health factor is at least
\* PRECISION before the step has a health factor of at least PRECISION after.
C33_OnlyRatesTurnUnsafe ==
    [][\A a \in Users :
           (/\ CalculateHealthFactor(a) >= PRECISION
            /\ prices'[userCurrency[a]] = prices[userCurrency[a]]) =>
               CalculateHealthFactor(a)' >= PRECISION]_vars

\* A position at its ceiling in one currency stayed safe while the other
\* currency's rate fell and another account became unsafe.
C33_Witness ==
    \E a \in Users, b \in Users :
        /\ borrowedAmount[a] > 0
        /\ CalculateHealthFactor(a) >= PRECISION
        /\ CalculateHealthFactor(a) < UINT_MAX
        /\ borrowedAmount[b] > 0
        /\ CalculateHealthFactor(b) < PRECISION
        /\ last.op \in EngineOps

\* The accounts in the registry.
Registered == {borrowers[i] : i \in 1 .. Len(borrowers)}

\* C36: in every reachable state every account with collateral > 0,
\* borrowed > 0 or a chosen currency is in getBorrowers(), so every
\* liquidatable position is enumerable.
C36_RegistryCoversPositions ==
    \A a \in Users :
        /\ (collateralAmount[a] > 0 \/ borrowedAmount[a] > 0 \/ hasCurrency[a]) =>
               a \in {GetBorrowers[i] : i \in 1 .. GetBorrowerCount}
        /\ CalculateHealthFactor(a) < PRECISION => a \in Registered

\* One account is registered for a deposit sent as a plain transfer, the other
\* for the choice of a currency alone.
C36_Witness ==
    \E a \in Users, b \in Users :
        /\ collateralAmount[a] > 0
        /\ ~hasCurrency[a]
        /\ last.op = "receive"
        /\ hasCurrency[b]
        /\ collateralAmount[b] = 0
        /\ borrowedAmount[b] = 0
        /\ Registered = {a, b}

\* C37: the registry is append-only and free of duplicates.  No account is
\* listed twice; the presence flags are those of the listed accounts; a step
\* only appends to the list, and appends one account at most, the caller of
\* a deposit, a currency choice or a borrow that was not listed; the entries
\* never change or disappear and getBorrowerCount() never decreases.
C37_RegistryAppendOnly ==
    /\ [](\A i \in 1 .. Len(borrowers), j \in 1 .. Len(borrowers) :
              borrowers[i] = borrowers[j] => i = j)
    /\ [](\A a \in Users : isBorrower[a] <=> a \in Registered)
    /\ [][/\ Len(borrowers') >= Len(borrowers)
          /\ SubSeq(borrowers', 1, Len(borrowers)) = borrowers
          /\ borrowers' # borrowers =>
                 /\ borrowers' = Append(borrowers, last'.caller)
                 /\ last'.caller \notin Registered
                 /\ last'.op \in {"depositCollateral", "receive", "setCurrency",
                                  "borrow", "borrowIn"}]_vars

\* Both accounts are listed, and the one listed first has just taken out
\* everything it had: it holds nothing, owes nothing and chose no currency.
C37_Witness ==
    /\ Len(borrowers) = Cardinality(Users)
    /\ last.op = "withdrawCollateral"
    /\ borrowers[1] = last.caller
    /\ collateralAmount[last.caller] = 0
    /\ borrowedAmount[last.caller] = 0
    /\ ~hasCurrency[last.caller]

\* A listed account has just deposited a second time.
C37_WitnessAgain ==
    /\ last.op = "depositCollateral"
    /\ collateralAmount[last.caller] > last.amount
    /\ Len(borrowers) = Cardinality(Users)

\* Amounts around an account's capacity.
AroundCapacity(a) ==
    BorrowAmounts \cup {GetBorrowCapacity(a), GetBorrowCapacity(a) + 1}

\* C38: getBorrowCapacity agrees with borrow.  In every unpaused state
\* borrow(amount) by an account succeeds iff 0 < amount <=
\* getBorrowCapacity(account); the capacity is 0 without a chosen currency
\* and at or above the 75% ceiling.
C38_CapacityAgreesWithBorrow ==
    \A a \in Users :
        /\ ~paused =>
               \A amount \in AroundCapacity(a) :
                   (BorrowErr(a, amount) = "none") <=>
                       (0 < amount /\ amount <= GetBorrowCapacity(a))
        /\ ~hasCurrency[a] => GetBorrowCapacity(a) = 0
        /\ (hasCurrency[a] /\ borrowedAmount[a] >= MaxBorrow(a, userCurrency[a])) =>
               GetBorrowCapacity(a) = 0

\* An account in debt with capacity left, and one above its ceiling after a
\* rate drop with none.
C38_Witness ==
    \E a \in Users, b \in Users :
        /\ ~paused
        /\ borrowedAmount[a] > 0
        /\ GetBorrowCapacity(a) > 0
        /\ BorrowErr(a, GetBorrowCapacity(a)) = "none"
        /\ BorrowErr(a, GetBorrowCapacity(a) + 1) = "BorrowLimitExceeded"
        /\ borrowedAmount[b] > MaxBorrow(b, userCurrency[b])
        /\ GetBorrowCapacity(b) = 0

\* C39: in every reachable state an account in debt has collateral and a
\* chosen currency, and an account that never chose a currency has
\* userCurrency at the default, USD.
C39_DebtNeedsCollateralAndCurrency ==
    \A a \in Users :
        /\ borrowedAmount[a] > 0 => (collateralAmount[a] > 0 /\ hasCurrency[a])
        /\ ~hasCurrency[a] => userCurrency[a] = USD

\* An account in debt has taken out what its debt allows and is refused the
\* rest; the other account chose no currency.
C39_Witness ==
    \E a \in Users, b \in Users :
        /\ borrowedAmount[a] > 0
        /\ userCurrency[a] = INR
        /\ WithdrawErr(a, collateralAmount[a], TRUE) = "WithdrawWouldLiquidate"
        /\ last.op = "withdrawCollateral"
        /\ last.caller = a
        /\ ~hasCurrency[b]
        /\ userCurrency[b] = USD

\* C40: in every successful liquidation the bonus the engine reports (the
\* bonus of the Liquidated event) never exceeds the collateral seized.
C40_BonusWithinSeizure ==
    last.op = "liquidate" => last.bonus <= last.seized

\* C35: an account without debt can always take out its whole collateral.
\* In every unpaused state withdraw(amount) with 0 < amount <= collateral and
\* borrowed = 0 passes every check when the caller accepts the payout, and
\* the engine holds the amount to pay, whatever the rates and the other
\* accounts' positions.
C35_DebtFreeWithdraws ==
    \A a \in Users :
        (~paused /\ borrowedAmount[a] = 0) =>
            \A amount \in 1 .. collateralAmount[a] :
                /\ WithdrawErr(a, amount, TRUE) = "none"
                /\ amount <= engineBalance

\* A position was just liquidated at a fallen rate and some collateral is
\* left to it.
C35_Witness ==
    /\ last.op = "liquidate"
    /\ ~paused
    /\ borrowedAmount[last.user] = 0
    /\ collateralAmount[last.user] > 0
    /\ prices[userCurrency[last.user]] < PRICE_DECIMALS
    /\ WithdrawErr(last.user, collateralAmount[last.user], TRUE) = "none"

\* The position can be liquidated by someone: the engine is unpaused and the
\* minter of the position's ledger, the position is unsafe and some account
\* holds its debt in units of its currency.
Liquidatable(u) ==
    /\ ~paused
    /\ minter[userCurrency[u]] = Engine
    /\ CalculateHealthFactor(u) < PRECISION
    /\ \E a \in Users : Funded(a, u)

\* C34: liquidate(user) has no hidden failure.  In every state where the
\* engine is unpaused and the registered minter, the health factor of user is
\* below PRECISION and the caller holds at least borrowed[user] units of
\* user's currency and accepts the payout, liquidate(user) passes every check
\* and the engine holds the collateral it pays; so, with funded accounts that
\* keep calling, a position that can be liquidated is liquidated unless it
\* ceases to be liquidatable.
C34_LiquidateNeverStuck ==
    /\ [](\A a \in Users, u \in Users :
              (/\ ~paused
               /\ minter[userCurrency[u]] = Engine
               /\ CalculateHealthFactor(u) < PRECISION
               /\ Funded(a, u)) =>
                  /\ LiquidateErr(a, u, TRUE) = "none"
                  /\ TotalSeize(borrowedAmount[u], GetLatestPrice(userCurrency[u]),
                                collateralAmount[u]) <= engineBalance)
    /\ \A u \in Users :
           Liquidatable(u) ~>
               ((last.op = "liquidate" /\ last.user = u) \/ ~Liquidatable(u))

\* An unsafe position was liquidated by another account, which held exactly
\* the position's debt.
C34_Witness ==
    /\ last.op = "liquidate"
    /\ last.caller # last.user
    /\ last.debt > 0
    /\ borrowedAmount[last.user] = 0
    /\ balanceOf[last.cur][last.caller] = 0
    /\ ~Liquidatable(last.user)

\* The receiver of a payout is running: the payout of a liquidation of u.
InLiquidationPayout == pc = "callback" /\ frame.op = "liquidate"

\* C31: liquidate writes borrowed[user] = 0 and the collateral deduction
\* before the burn and the payout.  When the receiver's code starts, the
\* position is final and the debt burned; as long as it runs, liquidate(user)
\* fails for every caller, every ledger's supply equals the debt recorded in
\* its currency (no debt is repaid twice), and the position of a user other
\* than the receiver stays as the outer call left it: no collateral beyond
\* the one seizure leaves it.
C31_LiquidateFinalizesFirst ==
    /\ [](InLiquidationPayout =>
            /\ frame.entries = 0 =>
                   /\ borrowedAmount[frame.user] = 0
                   /\ collateralAmount[frame.user] =
                          snapshot.collateralAmount[frame.user] - frame.seize
                   /\ balanceOf[frame.cur][frame.caller] =
                          snapshot.balanceOf[frame.cur][frame.caller] - frame.debt
            /\ \A a \in Users, ok \in BOOLEAN : LiquidateErr(a, frame.user, ok) # "none"
            /\ \A c \in Currencies :
                   /\ SumOver(balanceOf[c], Users) = totalSupply[c]
                   /\ totalSupply[c] = DebtIn(c)
            /\ frame.caller # frame.user =>
                   /\ borrowedAmount[frame.user] = 0
                   /\ collateralAmount[frame.user] =
                          snapshot.collateralAmount[frame.user] - frame.seize)
    /\ [][(InLiquidationPayout /\ pc' = "callback" /\ last' # last) =>
              ~(last'.op = "liquidate" /\ last'.user = frame.user)]_<<vars, txvars>>

\* The receiver of a liquidation's payout has called back into the engine
\* with success while the liquidated position still holds collateral, and a
\* second liquidate(user) is refused.
C31_Witness ==
    /\ InLiquidationPayout
    /\ frame.entries > 0
    /\ frame.caller # frame.user
    /\ last # frame.last
    /\ collateralAmount[frame.user] > 0
    /\ LiquidateErr(frame.caller, frame.user, TRUE) = "PositionHealthy"

\* The position a payout in progress is taken from.
PayoutSource == IF frame.op = "liquidate" THEN frame.user ELSE frame.caller

\* C32: the collateral asset the engine holds equals the sum of
\* collateralAmount over all accounts in every reachable state, the states
\* seen by calls re-entered from a withdraw or liquidate payout included; no
\* position is negative, a payout is at most the collateral of the position
\* it is taken from, and the accounts' wallets and positions together always
\* hold the whole of the asset.
C32_EngineHoldsTheCollateral ==
    /\ engineBalance = SumOver(collateralAmount, Users)
    /\ \A a \in Users : collateralAmount[a] >= 0 /\ wallet[a] >= 0
    /\ SumOver(wallet, Users) + SumOver(collateralAmount, Users) = Unit
    /\ pc = "callback" =>
           /\ frame.seize <= snapshot.collateralAmount[PayoutSource]
           /\ snapshot.engineBalance = SumOver(snapshot.collateralAmount, Users)

\* The receiver of a withdrawal's payout has withdrawn again from inside the
\* payout, while the engine still holds another account's collateral.
C32_Witness ==
    /\ pc = "callback"
    /\ frame.op = "withdrawCollateral"
    /\ frame.entries > 0
    /\ last.op = "withdrawCollateral"
    /\ last # frame.last
    /\ \E b \in Users : b # frame.caller /\ collateralAmount[b] > 0

====
